---- MODULE Spec2Model ----
(***************************************************************************)
(* State-machine model of the catalog discovery and extraction engine of   *)
(* app/scrapers/base.py: the two pagination strategies of                  *)
(* SiteScraper._crawl_catalog_urls, the product page extractor             *)
(* SiteScraper._scrape_product, and the scan orchestrators run_scan and    *)
(* run_scan_all.                                                           *)
(*                                                                         *)
(* Strings are TLC strings and are processed character by character, as    *)
(* the Python code does (str.find, str.split, re.sub, urllib.parse).  The  *)
(* alphabet of the modelled inputs is letters, digits, blank and the       *)
(* characters _ - . / ? = & : # $ ; no input contains a percent escape, a  *)
(* plus sign, a semicolon or a dot segment, so quoting and unquoting in    *)
(* urllib.parse act as the identity on every modelled string.              *)
(***************************************************************************)
EXTENDS Integers, Sequences, FiniteSets, TLC

None == "<None>"

(***************************************************************************)
(* Python str primitives.  A value that a definition uses more than once   *)
(* is bound through a one-element set, {body : x \in {e}}, so that it is   *)
(* computed once.                                                          *)
(***************************************************************************)
Only(S) == CHOOSE r \in S : TRUE

Min(S) == CHOOSE i \in S : \A j \in S : i <= j

\* str.find(sub) + 1: the index of the first occurrence, 0 when absent
StrFind(str, substr) ==
  Only({Only({IF hits = {} THEN 0 ELSE Min(hits) :
                hits \in {{i \in 1..(Len(s) - Len(sub) + 1) :
                             SubSeq(s, i, i + Len(sub) - 1) = sub}}}) :
          s \in {str}, sub \in {substr}})

\* sub in s
StrIn(sub, s) == StrFind(s, sub) # 0

\* s.startswith(prefix)
StartsWith(str, prefix) ==
  Only({Len(s) >= Len(p) /\ SubSeq(s, 1, Len(p)) = p : s \in {str}, p \in {prefix}})

\* s[i:] with a 1-based index
StrFrom(str, i) == Only({SubSeq(s, i, Len(s)) : s \in {str}})

\* s.split(sep): the list of the pieces between the occurrences of sep
RECURSIVE StrSplit(_, _)
StrSplit(str, sep) ==
  Only({IF i = 0 THEN <<s>>
        ELSE <<SubSeq(s, 1, i - 1)>> \o StrSplit(SubSeq(s, i + Len(sep), Len(s)), sep) :
          s \in {str}, i \in {StrFind(str, sep)}})

\* sep.join(parts)
RECURSIVE StrJoin(_, _)
StrJoin(parts, sep) ==
  Only({IF ps = <<>> THEN ""
        ELSE IF Len(ps) = 1 THEN ps[1]
        ELSE ps[1] \o sep \o StrJoin(Tail(ps), sep) : ps \in {parts}})

\* s.rstrip(ch)
RECURSIVE RStrip(_, _)
RStrip(str, ch) ==
  Only({IF Len(s) > 0 /\ SubSeq(s, Len(s), Len(s)) = ch
        THEN RStrip(SubSeq(s, 1, Len(s) - 1), ch)
        ELSE s : s \in {str}})

UpperChars == "ABCDEFGHIJKLMNOPQRSTUVWXYZ"
LowerChars == "abcdefghijklmnopqrstuvwxyz"

\* c.lower() of one character
LowerChar(c) ==
  Only({IF i = 0 THEN c ELSE SubSeq(LowerChars, i, i) : i \in {StrFind(UpperChars, c)}})

\* "".join(pieces[lo:hi]) with 1-based inclusive bounds, by halves
RECURSIVE Concat(_, _, _)
Concat(pieces, lo, hi) ==
  IF lo > hi THEN ""
  ELSE IF lo = hi THEN pieces[lo]
  ELSE Only({Concat(pieces, lo, mid) \o Concat(pieces, mid + 1, hi) :
               mid \in {(lo + hi) \div 2}})

\* s.lower()
StrLower(str) ==
  Only({Concat(pieces, 1, Len(pieces)) :
          pieces \in {[i \in 1..Len(str) |-> LowerChar(SubSeq(str, i, i))]}})

(***************************************************************************)
(* urllib.parse, on the modelled alphabet.                                 *)
(***************************************************************************)
SchemeChars == "abcdefghijklmnopqrstuvwxyzABCDEFGHIJKLMNOPQRSTUVWXYZ0123456789+-."

\* the index of the first of / ? # at or after position from, or Len(s)+1
NetlocEnd(s, from) ==
  Only({IF stops = {} THEN Len(s) + 1 ELSE Min(stops) :
          stops \in {{i \in from..Len(s) : SubSeq(s, i, i) \in {"/", "?", "#"}}}})

\* <<head, tail>> of s around the first occurrence of sep; the tail is "" when absent
Partition(str, sep) ==
  Only({IF i = 0 THEN <<s, "">> ELSE <<SubSeq(s, 1, i - 1), SubSeq(s, i + 1, Len(s))>> :
          s \in {str}, i \in {StrFind(str, sep)}})

\* urlsplit after the scheme: the netloc, then the fragment, then the query
SplitAfterScheme(scheme, rest) ==
  Only({Only({Only({[scheme |-> scheme, netloc |-> nl[1], path |-> pq[1],
                     query |-> pq[2], fragment |-> pf[2]] :
                      pq \in {Partition(pf[1], "?")}}) :
                pf \in {Partition(nl[2], "#")}}) :
          nl \in {IF StartsWith(rest, "//")
                  THEN Only({<<SubSeq(rest, 3, e - 1), SubSeq(rest, e, Len(rest))>> :
                               e \in {NetlocEnd(rest, 3)}})
                  ELSE <<"", rest>>}})

\* urlparse(url): scheme, netloc, path, query, fragment
urlparse(str) ==
  Only({IF c > 1 /\ \A i \in 1..(c - 1) : StrIn(SubSeq(url, i, i), SchemeChars)
        THEN SplitAfterScheme(StrLower(SubSeq(url, 1, c - 1)), SubSeq(url, c + 1, Len(url)))
        ELSE SplitAfterScheme("", url) :
          url \in {str}, c \in {StrFind(str, ":")}})

\* urlunparse(parts)
urlunparse(parts) ==
  Only({(IF p.scheme # "" THEN p.scheme \o ":" ELSE "")
          \o (IF p.netloc # ""
              THEN "//" \o p.netloc \o
                   (IF p.path # "" /\ ~StartsWith(p.path, "/") THEN "/" ELSE "")
              ELSE "")
          \o p.path
          \o (IF p.query # "" THEN "?" \o p.query ELSE "")
          \o (IF p.fragment # "" THEN "#" \o p.fragment ELSE "") :
          p \in {parts}})

\* A dict of lists is an ordered list of <<key, values>> (dicts keep insertion order).
DictKeys(d) == {d[i][1] : i \in 1..Len(d)}

DictIndex(d, key) == CHOOSE i \in 1..Len(d) : d[i][1] = key

\* d[key] = values: the key keeps its position when present, else goes last
DictSet(dict, key, values) ==
  Only({IF key \in DictKeys(d)
        THEN [d EXCEPT ![DictIndex(d, key)] = <<key, values>>]
        ELSE Append(d, <<key, values>>) : d \in {dict}})

\* d.pop(key, None)
DictPop(d, key) ==
  SelectSeq(d, LAMBDA kv : kv[1] # key)

\* parse_qs adds one name=value field to the dict: a field with a blank value is
\* dropped (keep_blank_values is False)
AddField(dict, field) ==
  Only({IF nv[2] = "" THEN d
        ELSE IF nv[1] \in DictKeys(d)
             THEN DictSet(d, nv[1], Append(d[DictIndex(d, nv[1])][2], nv[2]))
             ELSE DictSet(d, nv[1], <<nv[2]>>) :
          d \in {dict}, nv \in {Partition(field, "=")}})

\* parse_qs over the fields from the k-th on
RECURSIVE ParseFields(_, _, _)
ParseFields(fields, k, d) ==
  IF k > Len(fields) THEN d ELSE ParseFields(fields, k + 1, AddField(d, fields[k]))

\* parse_qs(query): fields split on &, name and value on the first =
parse_qs(query) ==
  IF query = "" THEN <<>>
  ELSE Only({ParseFields(fields, 1, <<>>) : fields \in {StrSplit(query, "&")}})

\* urlencode(d, doseq=True): key=value for every value of every key, in order
RECURSIVE EncodeDict(_, _)
EncodeDict(d, k) ==
  IF k > Len(d) THEN <<>>
  ELSE [i \in 1..Len(d[k][2]) |-> d[k][1] \o "=" \o d[k][2][i]] \o EncodeDict(d, k + 1)

urlencode(dict) == Only({StrJoin(EncodeDict(d, 1), "&") : d \in {dict}})

\* urljoin(base, url) for a base with an empty or root path
urljoin(base, url) ==
  Only({IF url = "" THEN base
        ELSE IF u.scheme # "" THEN url
        ELSE IF u.netloc # "" THEN urlunparse([u EXCEPT !.scheme = b.scheme])
        ELSE IF u.path = "" /\ u.query = ""
             THEN urlunparse([b EXCEPT !.fragment = u.fragment])
        ELSE IF u.path = ""
             THEN urlunparse([b EXCEPT !.query = u.query, !.fragment = u.fragment])
        ELSE IF StartsWith(u.path, "/")
             THEN urlunparse([u EXCEPT !.scheme = b.scheme, !.netloc = b.netloc])
        ELSE urlunparse([u EXCEPT !.scheme = b.scheme, !.netloc = b.netloc,
                                  !.path = "/" \o u.path]) :
          b \in {urlparse(base)}, u \in {urlparse(url)}})

(***************************************************************************)
(* Program constants of app/scrapers/base.py.                              *)
(***************************************************************************)
TRACKING_QUERY_PARAMS ==
  {"cid", "session", "utm_source", "utm_medium", "utm_campaign", "utm_term",
   "utm_content", "gclid", "fbclid"}

PAGINATION_SELECTORS ==
  <<"a[rel='next']", "a[aria-label*='Next']", "a:has-text('Next')", "button:has-text('Next')">>

\* the paths _discover_catalog_url tries, in this order
CATALOG_PATHS == <<"/collections/all", "/collections", "/shop", "/all", "/products">>

DEFAULT_PAGINATION_PARAM == "page"

SCROLL_ATTEMPTS_RANGE == 2..4

(***************************************************************************)
(* Bounds of the model.                                                    *)
(***************************************************************************)
\* the largest max_products budget of a target
MaxBudget == 3
\* the most product-link elements one catalog page holds
MaxLinks == 1
\* the most entries one products.json page holds
MaxApiProducts == 3
\* the most products.json pages requested (the cap of the page counter)
MaxApiPages == 3

\* every sequence over S of length at most n
SeqsUpTo(S, n) == UNION {[1..k -> S] : k \in 0..n}

(***************************************************************************)
(* SiteScraper: the URL helpers.                                           *)
(***************************************************************************)
\* DropTracking that pops no key
DropNothing(keys, k, query) == query

\* the loop of _normalize_product_url over list(query.keys()), from the k-th key on
RECURSIVE DropTracking(_, _, _)
DropTracking(keys, k, query) ==
  IF k > Len(keys) THEN query
  ELSE DropTracking(keys, k + 1,
         IF keys[k] \in TRACKING_QUERY_PARAMS \/ StartsWith(keys[k], "utm_")
         THEN DictPop(query, keys[k]) ELSE query)

_normalize_product_url(url) ==
  Only({Only({urlunparse([parsed EXCEPT !.query =
                 urlencode(DropTracking([i \in 1..Len(query) |-> query[i][1]], 1, query))]) :
                query \in {parse_qs(parsed.query)}}) :
          parsed \in {urlparse(url)}})

\* str(n) of a natural number
RECURSIVE StrOfInt(_)
StrOfInt(n) ==
  IF n < 10 THEN SubSeq("0123456789", n + 1, n + 1)
  ELSE StrOfInt(n \div 10) \o SubSeq("0123456789", (n % 10) + 1, (n % 10) + 1)

_with_pagination_param(url, param, page) ==
  Only({urlunparse([parsed EXCEPT !.query =
          urlencode(DictSet(parse_qs(parsed.query), param, <<StrOfInt(page)>>))]) :
          parsed \in {urlparse(url)}})

_is_product_url(url) ==
  \E segment \in {"/product/", "/products/", "/p/"} : StrIn(segment, url)

(***************************************************************************)
(* The inputs of the catalog crawl.                                        *)
(***************************************************************************)
DEFAULT_NAME_SELECTORS ==
  <<"[data-testid='product-title']", "[data-testid*='product-name']",
    "h1[itemprop='name']", "h1[class*='product']", "h1">>

DEFAULT_PRICE_SELECTORS ==
  <<"[data-testid*='price']", "[itemprop='price']", "[class*='price']", "[data-price]">>

DEFAULT_SIZE_SELECTORS ==
  <<"button[aria-label*='Size']", "[data-testid*='size'] button", "[class*='size'] button",
    "select[name*='size'] option">>

DEFAULT_AVAILABILITY_SELECTORS ==
  <<"[data-testid*='availability']", "[class*='availability']", "[class*='stock']">>

DEFAULT_DESCRIPTION_SELECTORS ==
  <<"[data-testid='product-description']", "[class*='description']",
    "[itemprop='description']">>

BaseUrl == "https://s.io"

ProductLinkSelectors == <<"a[href*='/products/']", "a[class*='product']">>

\* the targets: ScrapeConfig values that differ in budget and pagination overrides
Targets ==
  {[name |-> "s", base_url |-> BaseUrl,
    product_link_selectors |-> ProductLinkSelectors,
    name_selectors |-> DEFAULT_NAME_SELECTORS,
    price_selectors |-> DEFAULT_PRICE_SELECTORS,
    size_selectors |-> DEFAULT_SIZE_SELECTORS,
    availability_selectors |-> DEFAULT_AVAILABILITY_SELECTORS,
    description_selectors |-> DEFAULT_DESCRIPTION_SELECTORS,
    pagination_selector |-> o[1], pagination_param |-> o[2],
    max_products |-> m, catalog_url |-> None] :
     o \in {<<None, None>>, <<"a.next", "p">>}, m \in 1..MaxBudget}

StartUrls == {"https://s.io/collections/all", "https://s.io/shop?page=3"}

LinkHrefs ==
  {"/products/a", "/products/a?utm_source=x", "https://s.io/products/b", "/about"}

\* links of a page: at most MaxLinks link elements over the two selectors
LinkDoms ==
  {l \in SeqsUpTo(LinkHrefs, MaxLinks) \X SeqsUpTo(LinkHrefs, MaxLinks) :
     Len(l[1]) + Len(l[2]) <= MaxLinks}

\* every href of the modelled pages and every products.json handle as a path
AllHrefs ==
  LinkHrefs \cup {"/p/c"}
    \cup {"/collections/all", "/collections/all?page=2", "/shop?page=3", "/shop/2", "/shop?p=4"}
    \cup {"/products/a", "/products/a?utm_source=x", "/products/b", "/products/c"}

MoreDoms == {<<>>, <<"/p/c">>}

NavDoms ==
  {<<>>}
    \cup {("a[rel='next']" :> h) :
            h \in {"/collections/all", "/collections/all?page=2", "/shop?page=3"}}
    \cup {("a.next" :> "/shop/2") @@ ("a[rel='next']" :> "/collections/all?page=2"),
          ("button:has-text('Next')" :> None) @@ ("a:has-text('Next')" :> "/shop?p=4")}

\* the catalog pages as far as product links go
LinkPages == {[links |-> l, more |-> m] : l \in LinkDoms, m \in MoreDoms}

\* the entries of a products.json page: a product with a handle, or without one
ApiEntries ==
  {[handle |-> h] : h \in {"a", "a?utm_source=x", "b", "c", None}}

ApiProducts == SeqsUpTo(ApiEntries, MaxApiProducts)

(***************************************************************************)
(* Tables of the URL helpers over the URLs of the modelled pages: each     *)
(* entry is the value the helper computes, evaluated once.                 *)
(***************************************************************************)
JoinTable == [h \in AllHrefs |-> urljoin(BaseUrl, h)]

Joined(base_url, href) ==
  IF base_url = BaseUrl /\ href \in AllHrefs
  THEN JoinTable[href] ELSE urljoin(base_url, href)

AbsoluteUrls == {JoinTable[h] : h \in AllHrefs}

NormalizeTable == [u \in AbsoluteUrls |-> _normalize_product_url(u)]

Normalized(url) ==
  IF url \in AbsoluteUrls THEN NormalizeTable[url] ELSE _normalize_product_url(url)

\* the catalog page URLs a crawl can hold: the start URLs, the joined next links, and
\* what _with_pagination_param makes of them
PageUrlSeeds ==
  StartUrls \cup {JoinTable[h] : h \in AllHrefs}

PaginationParams == {DEFAULT_PAGINATION_PARAM, "p"}

\* the largest page number a crawl can ask for: two pages for each product of the budget
MaxPageNumber == 2 * MaxBudget + 2

PageUrls ==
  PageUrlSeeds \cup
    {_with_pagination_param(u, par, n) :
       u \in PageUrlSeeds, par \in PaginationParams, n \in 2..MaxPageNumber}

WithParamTable ==
  [u \in PageUrls |-> [par \in PaginationParams |-> [n \in 2..MaxPageNumber |->
     _with_pagination_param(u, par, n)]]]

WithPaginationParam(url, param, page) ==
  IF url \in PageUrls /\ param \in PaginationParams /\ page \in 2..MaxPageNumber
  THEN WithParamTable[url][param][page]
  ELSE _with_pagination_param(url, param, page)

IsProductTable == [u \in AbsoluteUrls |-> _is_product_url(u)]

IsProductUrl(url) ==
  IF url \in AbsoluteUrls THEN IsProductTable[url] ELSE _is_product_url(url)

(***************************************************************************)
(* SiteScraper: the helpers of the catalog crawl.  A catalog page is a     *)
(* record: links[i] lists the href attributes of the elements matched by   *)
(* the i-th product-link selector, more lists the hrefs of the elements    *)
(* that scrolling adds (one per scroll, matched by the first selector),    *)
(* nav maps every pagination selector that matches to its first href.      *)
(***************************************************************************)
\* the inner loop of _collect_product_urls over the hrefs of one selector, from the
\* k-th href on
RECURSIVE CollectHrefs(_, _, _, _)
CollectHrefs(hrefs, k, urls, base_url) ==
  IF k > Len(hrefs) THEN urls
  ELSE Only({CollectHrefs(hrefs, k + 1,
                          IF hrefs[k] # "" /\ IsProductUrl(absolute)
                             /\ \A i \in 1..Len(found) : found[i] # absolute
                          THEN Append(found, absolute) ELSE found,
                          base_url) :
               found \in {urls}, absolute \in {Joined(base_url, hrefs[k])}})

\* the outer loop of _collect_product_urls over the selectors, from the k-th on: a
\* selector that matches nothing is skipped, and no selector ends the loop
RECURSIVE CollectSelectors(_, _, _, _)
CollectSelectors(links, k, urls, base_url) ==
  IF k > Len(links) THEN urls
  ELSE CollectSelectors(links, k + 1, CollectHrefs(links[k], 1, urls, base_url), base_url)

_collect_product_urls(cfg, links) == CollectSelectors(links, 1, <<>>, cfg.base_url)

\* the links of a page after k scrolls
LinksAfterScroll(page, k) ==
  [page.links EXCEPT ![1] = @ \o SubSeq(page.more, 1,
                                        IF k < Len(page.more) THEN k ELSE Len(page.more))]

\* the loop of _maybe_scroll_for_more from attempt k on
RECURSIVE ScrollLoop(_, _, _, _, _)
ScrollLoop(cfg, page, k, attempts, best_urls) ==
  IF k > attempts THEN best_urls
  ELSE Only({IF Len(best) >= cfg.max_products THEN best
             ELSE ScrollLoop(cfg, page, k + 1, attempts, best) :
               best \in {Only({IF Len(fresh_urls) > Len(old) THEN fresh_urls ELSE old :
                                 old \in {best_urls},
                                 fresh_urls \in
                                   {_collect_product_urls(cfg, LinksAfterScroll(page, k))}})}})

_maybe_scroll_for_more(cfg, page, product_urls, attempts) ==
  ScrollLoop(cfg, page, 1, attempts, product_urls)

\* the product_urls a catalog page can give a target after collecting and scrolling
ProductUrlLists(cfg) ==
  {_maybe_scroll_for_more(cfg, page, _collect_product_urls(cfg, page.links), attempts) :
     page \in LinkPages, attempts \in SCROLL_ATTEMPTS_RANGE}

\* AddUrl with the seen-set keyed by the raw URL instead of the normalized one
AddUrlRaw(st, url, normalized) ==
  IF url \notin st.seen_products
  THEN [collected |-> Append(st.collected, url),
        seen_products |-> st.seen_products \cup {url},
        new_count |-> st.new_count + 1]
  ELSE st

\* one step of the dedup loop of _crawl_catalog_urls: st is
\* [collected, seen_products, new_count]
AddUrl(st, url, normalized) ==
  IF normalized \notin st.seen_products
  THEN [collected |-> Append(st.collected, url),
        seen_products |-> st.seen_products \cup {normalized},
        new_count |-> st.new_count + 1]
  ELSE st

\* AddNewUrls without the break at the budget
RECURSIVE AddNewUrlsNoBreak(_, _, _, _)
AddNewUrlsNoBreak(product_urls, k, state, max_products) ==
  IF k > Len(product_urls) THEN state
  ELSE AddNewUrlsNoBreak(product_urls, k + 1,
                         AddUrl(state, product_urls[k], Normalized(product_urls[k])),
                         max_products)

\* the dedup loop of _crawl_catalog_urls over the product_urls of one page, from
\* the k-th URL on: it ends early when the budget is reached
RECURSIVE AddNewUrls(_, _, _, _)
AddNewUrls(product_urls, k, state, max_products) ==
  IF k > Len(product_urls) THEN state
  ELSE Only({IF Len(st.collected) > Len(old.collected) /\ Len(st.collected) >= max_products
             THEN st
             ELSE AddNewUrls(product_urls, k + 1, st, max_products) :
               st \in {AddUrl(old, product_urls[k], Normalized(product_urls[k])) :
                         old \in {state}},
               old \in {state}})

\* the selector list of _find_next_page_url
NextSelectors(cfg) ==
  (IF cfg.pagination_selector # None THEN <<cfg.pagination_selector>> ELSE <<>>)
    \o PAGINATION_SELECTORS

PaginationParam(cfg) ==
  IF cfg.pagination_param # None THEN cfg.pagination_param ELSE DEFAULT_PAGINATION_PARAM

\* the selector loop of _find_next_page_url from the k-th selector on:
\* <<next_url, fallback_url>>
RECURSIVE FindNextLoop(_, _, _, _, _, _)
FindNextLoop(cfg, selectors, k, nav, current_url, next_page) ==
  IF k > Len(selectors)
  THEN <<WithPaginationParam(current_url, PaginationParam(cfg), next_page), None>>
  ELSE IF selectors[k] = "" \/ selectors[k] \notin DOMAIN nav
          \/ nav[selectors[k]] = None \/ nav[selectors[k]] = ""
       THEN FindNextLoop(cfg, selectors, k + 1, nav, current_url, next_page)
       ELSE <<Joined(cfg.base_url, nav[selectors[k]]),
              WithPaginationParam(current_url, PaginationParam(cfg), next_page)>>

\* _find_next_page_url without the parameter guess: no next URL when no selector
\* matched with an href
FindNextStructuralOnly(cfg, nav, current_url, next_page) ==
  Only({IF found[2] = None THEN <<None, None>> ELSE found :
          found \in {FindNextLoop(cfg, NextSelectors(cfg), 1, nav, current_url,
                                  next_page)}})

_find_next_page_url(cfg, nav, current_url, next_page) ==
  Only({FindNextLoop(cfg, selectors, 1, nav, current_url, next_page) :
          selectors \in {NextSelectors(cfg)}})

\* one step of the loop over the entries of a products.json page: st is
\* [collected, seen_products]
AddHandle(st, normalized) ==
  IF normalized \notin st.seen_products
  THEN [collected |-> Append(st.collected, normalized),
        seen_products |-> st.seen_products \cup {normalized}]
  ELSE st

\* the loop over the entries of one products.json page, from the k-th entry on: an
\* entry without a handle is skipped, and the loop ends when the budget is reached
RECURSIVE AddHandles(_, _, _, _)
AddHandles(products, k, state, cfg) ==
  IF k > Len(products) THEN state
  ELSE IF products[k].handle = None \/ products[k].handle = ""
       THEN AddHandles(products, k + 1, state, cfg)
       ELSE Only({IF Len(st.collected) >= cfg.max_products THEN st
                  ELSE AddHandles(products, k + 1, st, cfg) :
                    st \in {AddHandle(old, Normalized(Joined(cfg.base_url,
                                             "/products/" \o products[k].handle))) :
                              old \in {state}}})

\* the distinct product URLs one products.json page offers, whatever the budget
Offer(products, cfg) ==
  AddHandles(products, 1, [collected |-> <<>>, seen_products |-> {}],
             [cfg EXCEPT !.max_products = Len(products) + 1]).collected

\* the applicability test of _crawl_shopify_catalog_urls
ShopifyApplies(start_url) ==
  StrIn("/collections/", start_url) /\ RStrip(urlparse(start_url).path, "/") # ""

\* ProductUrlLists of every target
PageProductUrls == [cfg \in Targets |-> ProductUrlLists(cfg)]

(***************************************************************************)
(* SiteScraper: the text helpers of the product page.                      *)
(***************************************************************************)
DESCRIPTION_BLACKLIST ==
  <<"strictly necessary cookies", "delivery time", "shipping method", "free above",
    "cookie", "cookies", "sort by", "prev", "next", "wishlist", "shipping">>

\* the characters \s matches in the page texts
IsSpaceChar(c) == c \in {" ", "\n", "\t"}

\* what re.sub(r"\s+", " ", text).strip() keeps of the k-th character: the character
\* itself, one space for the first character of an inner run of whitespace
CollapsePiece(text, inked, k) ==
  IF k \in inked THEN SubSeq(text, k, k)
  ELSE IF (k - 1) \in inked /\ \E j \in inked : j > k THEN " "
  ELSE ""

\* re.sub(r"\s+", " ", text).strip()
Collapse(text) ==
  Only({Only({Concat(pieces, 1, Len(pieces)) :
                pieces \in {[k \in 1..Len(text) |-> CollapsePiece(text, inked, k)]}}) :
          inked \in {{i \in 1..Len(text) : ~IsSpaceChar(SubSeq(text, i, i))}}})

_clean_text(text) ==
  Only({IF cleaned = "" THEN None ELSE cleaned : cleaned \in {Collapse(text)}})

\* s.strip()
StrStrip(str) ==
  Only({Only({IF inked = {} THEN ""
              ELSE SubSeq(s, Min(inked), CHOOSE i \in inked : \A j \in inked : j <= i) :
                inked \in {{i \in 1..Len(s) : ~IsSpaceChar(SubSeq(s, i, i))}}}) :
          s \in {str}})

\* re.split(r"(?<=[.!?])\s+", cleaned) of cleaned[start:]: a cut is a run of
\* whitespace that follows a terminal punctuation mark
RECURSIVE SplitSentences(_, _)
SplitSentences(cleaned, start) ==
  Only({IF cuts = {} THEN <<SubSeq(cleaned, start, Len(cleaned))>>
        ELSE Only({<<SubSeq(cleaned, start, k - 1)>> \o
                   SplitSentences(cleaned,
                     1 + Min({j \in k..Len(cleaned) :
                                j = Len(cleaned) \/ ~IsSpaceChar(SubSeq(cleaned, j + 1, j + 1))})) :
                     k \in {Min(cuts)}}) :
          cuts \in {{k \in start..Len(cleaned) :
                       /\ IsSpaceChar(SubSeq(cleaned, k, k))
                       /\ k > 1 /\ SubSeq(cleaned, k - 1, k - 1) \in {".", "!", "?"}}}})

\* the parts of a description that hold no blacklisted text
KeptParts(parts) ==
  SelectSeq(parts, LAMBDA part :
    Only({\A b \in 1..Len(DESCRIPTION_BLACKLIST) : ~StrIn(DESCRIPTION_BLACKLIST[b], lowered) :
            lowered \in {StrLower(part)}}))

_clean_description(text) ==
  IF text = None \/ text = "" THEN None
  ELSE Only({IF cleaned = None THEN None
             ELSE Only({IF joined = "" THEN None ELSE joined :
                          joined \in {StrStrip(StrJoin(KeptParts(SplitSentences(cleaned, 1)), " "))}}) :
               cleaned \in {_clean_text(text)}})

_normalize_availability(text) ==
  Only({IF StrIn("outofstock", lowered) \/ StrIn("out of stock", lowered)
           \/ StrIn("sold out", lowered)
        THEN "out_of_stock"
        ELSE IF StrIn("instock", lowered) \/ StrIn("in stock", lowered)
                \/ StrIn("available", lowered)
        THEN "in_stock"
        ELSE IF StrIn("waitlist", lowered) THEN "out_of_stock"
        ELSE None : lowered \in {StrLower(text)}})

(***************************************************************************)
(* SiteScraper: the size tokens.  A regular expression is modelled by the  *)
(* position its leftmost match from a given position ends at, found in the *)
(* order the backtracking matcher tries its options.                       *)
(***************************************************************************)
DigitChars == {"0", "1", "2", "3", "4", "5", "6", "7", "8", "9"}

LetterChars ==
  {SubSeq(UpperChars, i, i) : i \in 1..26} \cup {SubSeq(LowerChars, i, i) : i \in 1..26}

\* s[p - 1] with a 1-based position, "" outside the string
CharAt(s, p) == IF p >= 1 /\ p <= Len(s) THEN SubSeq(s, p, p) ELSE ""

\* \w
IsWordChar(c) == c \in LetterChars \cup DigitChars \cup {"_"}

\* \b right before the p-th character
WordBoundary(s, p) == IsWordChar(CharAt(s, p - 1)) # IsWordChar(CharAt(s, p))

\* c.upper() of one character
UpperChar(c) ==
  Only({IF i = 0 THEN c ELSE SubSeq(UpperChars, i, i) :
          i \in {IF c = "" THEN 0 ELSE StrFind(LowerChars, c)}})

\* s.upper()
StrUpper(str) ==
  Only({Concat(pieces, 1, Len(pieces)) :
          pieces \in {[i \in 1..Len(str) |-> UpperChar(SubSeq(str, i, i))]}})

\* s.replace(old, new) for a one-character old
ReplaceChar(str, old, new) ==
  Only({Concat(pieces, 1, Len(pieces)) :
          pieces \in {[i \in 1..Len(str) |->
                        IF SubSeq(str, i, i) = old THEN new ELSE SubSeq(str, i, i)]}})

\* the lower-cased word is at position p of s, whatever the case in s
WordAt(s, p, word) ==
  p + Len(word) - 1 <= Len(s) /\ StrLower(SubSeq(s, p, p + Len(word) - 1)) = word

\* the sequences of a sequence of sequences, joined, by halves
RECURSIVE Flatten(_, _, _)
Flatten(seqs, lo, hi) ==
  IF lo > hi THEN <<>>
  ELSE IF lo = hi THEN seqs[lo]
  ELSE Only({Flatten(seqs, lo, mid) \o Flatten(seqs, mid + 1, hi) :
               mid \in {(lo + hi) \div 2}})

FlatMap(Op(_), seq) ==
  Only({Flatten(seqs, 1, Len(seqs)) : seqs \in {[i \in 1..Len(seq) |-> Op(seq[i])]}})

\* the entries of seq at the indices idx, in order
KeepAt(seq, idx) ==
  [n \in 1..Cardinality(idx) |->
     seq[CHOOSE i \in idx : Cardinality({j \in idx : j <= i}) = n]]

\* list(dict.fromkeys(seq))
Dedup(seq) ==
  KeepAt(seq, {i \in 1..Len(seq) : \A j \in 1..(i - 1) : seq[j] # seq[i]})

\* where a match of \b(?:alt1|alt2|...)\b that starts at p ends (the position
\* after it), 0 when there is none: the first alternative that fits wins
AltMatchEnd(s, p, alts) ==
  IF ~WordBoundary(s, p) THEN 0
  ELSE Only({IF fits = {} THEN 0 ELSE p + Len(alts[Min(fits)]) :
               fits \in {{a \in 1..Len(alts) :
                            WordAt(s, p, alts[a]) /\ WordBoundary(s, p + Len(alts[a]))}}})

\* the first position from p on that holds no character of the class
RunEnd(s, p, InClass(_)) ==
  Min({q \in p..(Len(s) + 1) : ~InClass(CharAt(s, q))})

IsDigitChar(c) == c \in DigitChars

\* where a match of \b\d+\s*reviews?\b that starts at p ends, 0 when there is none
ReviewsMatchEnd(s, p) ==
  IF ~WordBoundary(s, p) \/ ~IsDigitChar(CharAt(s, p)) THEN 0
  ELSE Only({IF ~WordAt(s, w, "review") THEN 0
             ELSE IF WordAt(s, w + 6, "s") /\ WordBoundary(s, w + 7) THEN w + 7
             ELSE IF WordBoundary(s, w + 6) THEN w + 6
             ELSE 0 :
               w \in {RunEnd(s, RunEnd(s, p, IsDigitChar), IsSpaceChar)}})

NOISE_WORDS ==
  <<"sort by", "prev", "next", "choose size", "find my size", "join the waitlist",
    "low stock">>

SIZE_TOKEN_WORDS ==
  <<"xxxs", "xxs", "xs", "s", "m", "l", "xl", "xxl", "xxxl", "one size", "os", "osfa",
    "petite", "regular", "tall">>

\* the ends \d{1,2} can have from q, the longer first
DigitsEnds(s, q) ==
  IF IsDigitChar(CharAt(s, q)) /\ IsDigitChar(CharAt(s, q + 1)) THEN <<q + 2, q + 1>>
  ELSE IF IsDigitChar(CharAt(s, q)) THEN <<q + 1>>
  ELSE <<>>

\* the ends (?:\.\d)? can have from q
FractionEnds(s, q) ==
  IF CharAt(s, q) = "." /\ IsDigitChar(CharAt(s, q + 1)) THEN <<q + 2, q>> ELSE <<q>>

\* the ends (?:-\d{1,2}(?:\.\d)?)? can have from q
RangeEnds(s, q) ==
  (IF CharAt(s, q) = "-"
   THEN FlatMap(LAMBDA e : FractionEnds(s, e), DigitsEnds(s, q + 1))
   ELSE <<>>) \o <<q>>

\* where a match of SIZE_NUMBER_REGEX that starts at p ends, 0 when there is none
NumberMatchEnd(s, p) ==
  IF ~WordBoundary(s, p) THEN 0
  ELSE Only({Only({IF good = {} THEN 0 ELSE ends[Min(good)] :
                     good \in {{i \in 1..Len(ends) : WordBoundary(s, ends[i])}}}) :
               ends \in {FlatMap(LAMBDA r : RangeEnds(s, r),
                         FlatMap(LAMBDA f : FractionEnds(s, f),
                         FlatMap(LAMBDA d : DigitsEnds(s, d),
                         FlatMap(LAMBDA b : IF IsSpaceChar(CharAt(s, b)) THEN <<b + 1, b>>
                                           ELSE <<b>>,
                           IF \E c \in {"uk", "us", "eu"} : WordAt(s, p, c)
                           THEN <<p + 2, p>> ELSE <<p>>))))}})

\* re.sub(pattern, " ", s) of s[from - 1:], ends[p] being where a match from p ends
RECURSIVE ReSubSpace(_, _, _)
ReSubSpace(s, ends, from) ==
  Only({IF starts = {} THEN SubSeq(s, from, Len(s))
        ELSE Only({SubSeq(s, from, p - 1) \o " " \o ReSubSpace(s, ends, ends[p]) :
                     p \in {Min(starts)}}) :
          starts \in {{p \in from..Len(s) : ends[p] # 0}}})

\* pattern.findall(s) of s[from - 1:]
RECURSIVE FindAll(_, _, _)
FindAll(s, ends, from) ==
  Only({IF starts = {} THEN <<>>
        ELSE Only({<<SubSeq(s, p, ends[p] - 1)>> \o FindAll(s, ends, ends[p]) :
                     p \in {Min(starts)}}) :
          starts \in {{p \in from..Len(s) : ends[p] # 0}}})

\* int(digits), 0 for no digits
RECURSIVE StrToNat(_)
StrToNat(digits) ==
  IF digits = "" THEN 0
  ELSE 10 * StrToNat(SubSeq(digits, 1, Len(digits) - 1))
       + (StrFind("0123456789", SubSeq(digits, Len(digits), Len(digits))) - 1)

_is_reasonable_size_number(token) ==
  Only({IF numeric = "" THEN FALSE
        ELSE Only({IF Cardinality(dots) > 1 \/ Cardinality(dots) = Len(numeric) THEN FALSE
                   ELSE IF dots = {} THEN StrToNat(numeric) <= 30
                   ELSE Only({\/ StrToNat(SubSeq(numeric, 1, d - 1)) < 30
                              \/ /\ StrToNat(SubSeq(numeric, 1, d - 1)) = 30
                                 /\ StrToNat(SubSeq(numeric, d + 1, Len(numeric))) = 0 :
                                d \in dots}) :
                     dots \in {{i \in 1..Len(numeric) : SubSeq(numeric, i, i) = "."}}}) :
          numeric \in {Only({Concat(pieces, 1, Len(pieces)) :
                         pieces \in {[i \in 1..Len(token) |->
                            IF SubSeq(token, i, i) \in DigitChars \cup {"."}
                            THEN SubSeq(token, i, i) ELSE ""]}})}})

\* the normalized numeric tokens of _extract_size_tokens that are kept
NumberTokens(found) ==
  Only({SelectSeq(normalized, _is_reasonable_size_number) :
          normalized \in {[i \in 1..Len(found) |-> ReplaceChar(StrUpper(found[i]), " ", "")]}})

_extract_size_tokens(text) ==
  Only({Only({Only({
      [i \in 1..Len(words) |-> StrUpper(words[i])] \o NumberTokens(numbers) :
        words \in {FindAll(cleaned,
                     [p \in 1..Len(cleaned) |-> AltMatchEnd(cleaned, p, SIZE_TOKEN_WORDS)], 1)},
        numbers \in {FindAll(cleaned,
                     [p \in 1..Len(cleaned) |-> NumberMatchEnd(cleaned, p)], 1)}}) :
      cleaned \in {ReplaceChar(
                     ReSubSpace(unrated,
                       [p \in 1..Len(unrated) |-> AltMatchEnd(unrated, p, NOISE_WORDS)], 1),
                     "/", " ")}}) :
    unrated \in {ReSubSpace(text, [p \in 1..Len(text) |-> ReviewsMatchEnd(text, p)], 1)}})

_filter_sizes(sizes) ==
  Only({Dedup(SelectSeq([i \in 1..Len(tokens) |-> StrStrip(tokens[i])],
                        LAMBDA token : token # "")) :
          tokens \in {FlatMap(_extract_size_tokens, sizes)}})

(***************************************************************************)
(* SiteScraper: the structured product data of a page.  A parsed JSON      *)
(* value is a record tagged with its Python type in t.                     *)
(***************************************************************************)
JNull == [t |-> "null"]

JStr(s) == [t |-> "str", v |-> s]

\* a number: v is str() of it, zero tells whether it is 0
JNum(repr, is_zero) == [t |-> "num", v |-> repr, zero |-> is_zero]

JList(items) == [t |-> "list", v |-> items]

\* a dict: v maps its keys to their values
JDict(items) == [t |-> "dict", v |-> items]

\* d.get(key) of a dict
JGet(d, key) == IF key \in DOMAIN d.v THEN d.v[key] ELSE JNull

\* bool(value)
Truthy(j) ==
  CASE j.t = "null" -> FALSE
    [] j.t = "str" -> j.v # ""
    [] j.t = "num" -> ~j.zero
    [] j.t = "list" -> j.v # <<>>
    [] j.t = "dict" -> DOMAIN j.v # {}

\* the dict _extract_product_fields builds: keys are the keys it holds, raised tells
\* that the extraction raised instead
NoFields ==
  [keys |-> {}, name |-> None, description |-> None, price |-> None,
   availability |-> None, raised |-> FALSE]

FieldsRaised == [NoFields EXCEPT !.raised = TRUE]

\* result[key] = value
SetField(result, key, value) ==
  [result EXCEPT ![key] = value, !.keys = result.keys \cup {key}]

\* lines 497-508 of _extract_product_fields: the offers of the product
OfferFields(result, offers_value) ==
  Only({IF offers.t # "dict" THEN result
        ELSE IF /\ ~Truthy(JGet(offers, "price"))
                /\ "priceSpecification" \in DOMAIN offers.v
                /\ offers.v["priceSpecification"].t # "dict"
        THEN FieldsRaised
        ELSE Only({Only({IF availability.t = "str"
                         THEN SetField(priced, "availability",
                                       _normalize_availability(availability.v))
                         ELSE priced :
                           priced \in {IF price.t # "null"
                                       THEN SetField(result, "price", price.v) ELSE result},
                           availability \in {JGet(offers, "availability")}}) :
                     price \in {IF Truthy(JGet(offers, "price")) THEN JGet(offers, "price")
                                ELSE IF "priceSpecification" \in DOMAIN offers.v
                                THEN JGet(offers.v["priceSpecification"], "price")
                                ELSE JNull}}) :
          offers \in {IF offers_value.t = "list" /\ offers_value.v # <<>>
                      THEN offers_value.v[1] ELSE offers_value}})

_extract_product_fields(product) ==
  Only({Only({OfferFields(described, JGet(product, "offers")) :
                described \in {IF JGet(product, "description").t = "str"
                               THEN SetField(named, "description",
                                      _clean_description(JGet(product, "description").v))
                               ELSE named}}) :
          named \in {IF JGet(product, "name").t = "str"
                     THEN SetField(NoFields, "name", _clean_text(JGet(product, "name").v))
                     ELSE NoFields}})

\* _find_product_json_ld, and its loop over a list payload from the k-th item on
RECURSIVE _find_product_json_ld(_), FindInItems(_, _)
_find_product_json_ld(payload) ==
  IF payload.t = "list" THEN FindInItems(payload.v, 1)
  ELSE IF payload.t # "dict" THEN NoFields
  ELSE IF JGet(payload, "@type").t = "str" /\ JGet(payload, "@type").v = "Product"
  THEN _extract_product_fields(payload)
  ELSE IF "@graph" \in DOMAIN payload.v THEN _find_product_json_ld(payload.v["@graph"])
  ELSE NoFields

FindInItems(items, k) ==
  IF k > Len(items) THEN NoFields
  ELSE Only({IF found.raised \/ found.keys # {} THEN found ELSE FindInItems(items, k + 1) :
               found \in {_find_product_json_ld(items[k])}})

(***************************************************************************)
(* The product pages.  A page is [goto, dom, buttons, scripts]: goto tells *)
(* whether the navigation succeeds, dom maps a selector to the inner texts *)
(* of the elements it matches, buttons maps an add-to-cart selector to the *)
(* state of the first button it matches, scripts are the texts of the      *)
(* application/ld+json script elements.                                    *)
(***************************************************************************)
ADD_TO_CART_SELECTORS ==
  <<"button:has-text('Add to Cart')", "button:has-text('Add to Bag')",
    "button:has-text('Add to Basket')">>

ScriptBlank == " \n "

ScriptInvalid == "{oops"

ScriptOrg == "{\"@type\": \"Organization\", \"name\": \"Shop\"}"

ScriptTee ==
  "{\"@type\": \"Product\", \"name\": \"Tee \", \"description\": \"Soft. Free shipping.\", \"offers\": {\"price\": \"49.00\", \"availability\": \"https://schema.org/InStock\"}}"

ScriptGraph ==
  "{\"@graph\": [{\"@type\": \"Organization\", \"name\": \"Shop\"}, {\"@type\": \"Product\", \"name\": \"Cap\", \"offers\": [{\"price\": 0, \"priceSpecification\": {\"price\": 30.0}, \"availability\": \"OutOfStock\"}]}]}"

ScriptList ==
  "[{\"@type\": \"WebSite\"}, {\"@type\": \"Product\", \"name\": \" \", \"offers\": {\"price\": 12}}]"

ScriptNameless ==
  "{\"@type\": \"Product\", \"name\": [\"x\"], \"offers\": {\"availability\": \"PreOrder\"}}"

ScriptBadSpec ==
  "{\"@type\": \"Product\", \"name\": \"Bag\", \"offers\": {\"priceSpecification\": \"9\"}}"

JOrg == JDict(("@type" :> JStr("Organization")) @@ ("name" :> JStr("Shop")))

\* json.loads(raw): ok is FALSE for a JSONDecodeError
json_loads(raw) ==
  CASE raw = ScriptOrg -> [ok |-> TRUE, value |-> JOrg]
    [] raw = ScriptTee ->
         [ok |-> TRUE,
          value |-> JDict(("@type" :> JStr("Product")) @@ ("name" :> JStr("Tee ")) @@
                          ("description" :> JStr("Soft. Free shipping.")) @@
                          ("offers" :> JDict(("price" :> JStr("49.00")) @@
                             ("availability" :> JStr("https://schema.org/InStock")))))]
    [] raw = ScriptGraph ->
         [ok |-> TRUE,
          value |-> JDict("@graph" :> JList(<<JOrg,
                      JDict(("@type" :> JStr("Product")) @@ ("name" :> JStr("Cap")) @@
                            ("offers" :> JList(<<JDict(
                               ("price" :> JNum("0", TRUE)) @@
                               ("priceSpecification" :> JDict("price" :> JNum("30.0", FALSE))) @@
                               ("availability" :> JStr("OutOfStock")))>>)))>>))]
    [] raw = ScriptList ->
         [ok |-> TRUE,
          value |-> JList(<<JDict("@type" :> JStr("WebSite")),
                            JDict(("@type" :> JStr("Product")) @@ ("name" :> JStr(" ")) @@
                                  ("offers" :> JDict("price" :> JNum("12", FALSE))))>>)]
    [] raw = ScriptNameless ->
         [ok |-> TRUE,
          value |-> JDict(("@type" :> JStr("Product")) @@ ("name" :> JList(<<JStr("x")>>)) @@
                          ("offers" :> JDict("availability" :> JStr("PreOrder"))))]
    [] raw = ScriptBadSpec ->
         [ok |-> TRUE,
          value |-> JDict(("@type" :> JStr("Product")) @@ ("name" :> JStr("Bag")) @@
                          ("offers" :> JDict("priceSpecification" :> JStr("9"))))]
    [] OTHER -> [ok |-> FALSE]

ScriptLists ==
  {<<>>, <<ScriptBlank, ScriptInvalid, ScriptTee>>, <<ScriptOrg, ScriptGraph>>,
   <<ScriptList, ScriptTee>>, <<ScriptNameless>>, <<ScriptBadSpec>>}

\* the elements of a page that can match a name selector, and so on for each field
NameDoms ==
  {<<>>,
   "h1" :> <<"Tee">>,
   ("h1[itemprop='name']" :> <<" \n ">>) @@ ("h1" :> <<" Linen \n Shirt ">>),
   ("[data-testid='product-title']" :> <<"Coat", "Hat">>) @@ ("h1" :> <<"Shop">>),
   "h1" :> <<"  ">>}

PriceDoms ==
  {<<>>,
   "[class*='price']" :> <<"$20">>,
   ("[itemprop='price']" :> <<"">>) @@ ("[data-price]" :> <<"$25.00">>)}

AvailabilityDoms ==
  {<<>>,
   "[class*='stock']" :> <<"Sold Out">>,
   "[class*='stock']" :> <<"In stock">>,
   "[class*='stock']" :> <<"Low stock">>,
   "[class*='stock']" :> <<"Ships soon">>,
   ("[data-testid*='availability']" :> <<" ">>) @@
     ("[class*='availability']" :> <<"Join the waitlist">>)}

DescriptionDoms ==
  {<<>>,
   "[class*='description']" :> <<"Soft cotton.  Free shipping.">>,
   "[class*='description']" :> <<"Free shipping.">>,
   ("[data-testid='product-description']" :> <<"">>) @@ ("[itemprop='description']" :> <<"Warm!">>)}

SizeDoms ==
  {<<>>,
   "[class*='size'] button" :> <<"S", "M / L", "S">>,
   ("button[aria-label*='Size']" :> <<" ">>) @@
     ("select[name*='size'] option" :> <<"Choose size", "UK 8", "32">>)}

\* the first add-to-cart button of a page: what is_disabled() gives, "error" when
\* the call raises
ButtonDoms ==
  {<<>>,
   "button:has-text('Add to Cart')" :> "enabled",
   "button:has-text('Add to Bag')" :> "disabled",
   "button:has-text('Add to Basket')" :> "error"}

\* a page whose navigation fails
UnreachablePage == [goto |-> "fails", dom |-> <<>>, buttons |-> <<>>, scripts |-> <<>>]

ProductPages ==
  {UnreachablePage} \cup
  {[goto |-> "ok", dom |-> n @@ p @@ a @@ d @@ s, buttons |-> b, scripts |-> j] :
     n \in NameDoms, p \in PriceDoms, a \in AvailabilityDoms, d \in DescriptionDoms,
     s \in SizeDoms, b \in ButtonDoms, j \in ScriptLists}

\* every inner text of the product pages
PageTexts ==
  UNION {UNION {{f[sel][i] : i \in 1..Len(f[sel])} : sel \in DOMAIN f} :
           f \in NameDoms \cup PriceDoms \cup AvailabilityDoms \cup DescriptionDoms
                   \cup SizeDoms}

(***************************************************************************)
(* Tables of the text helpers over the texts of the product pages.         *)
(***************************************************************************)
CleanTextTable == [text \in PageTexts |-> _clean_text(text)]

CleanText(text) == CleanTextTable[text]

CleanedTexts == {CleanTextTable[text] : text \in PageTexts} \ {None}

AvailabilityTable ==
  [text \in CleanedTexts |->
     [normalized |-> _normalize_availability(text),
      low_stock |-> StrIn("low stock", StrLower(text))]]

SizeTokensTable == [text \in CleanedTexts |-> _extract_size_tokens(text)]

\* _filter_sizes with the tokens of each text taken from the table
FilterSizes(sizes) ==
  Only({Dedup(SelectSeq([i \in 1..Len(tokens) |-> StrStrip(tokens[i])],
                        LAMBDA token : token # "")) :
          tokens \in {FlatMap(LAMBDA size : SizeTokensTable[size], sizes)}})

(***************************************************************************)
(* SiteScraper: the extraction of a product page.                          *)
(***************************************************************************)
\* the inner texts of the elements page.locator(selector) matches
Elems(page, selector) ==
  IF selector \in DOMAIN page.dom THEN page.dom[selector] ELSE <<>>

\* the loop of _first_text from the k-th selector on
RECURSIVE FirstTextFrom(_, _, _)
FirstTextFrom(page, selectors, k) ==
  IF k > Len(selectors) THEN None
  ELSE Only({IF elems = <<>> THEN FirstTextFrom(page, selectors, k + 1)
             ELSE Only({IF text # None THEN text
                        ELSE FirstTextFrom(page, selectors, k + 1) :
                          text \in {CleanText(elems[1])}}) :
               elems \in {Elems(page, selectors[k])}})

_first_text(page, selectors) == FirstTextFrom(page, selectors, 1)

\* the loop of _all_texts from the k-th selector on
RECURSIVE AllTextsFrom(_, _, _)
AllTextsFrom(page, selectors, k) ==
  IF k > Len(selectors) THEN <<>>
  ELSE Only({IF elems = <<>> THEN AllTextsFrom(page, selectors, k + 1)
             ELSE Only({IF cleaned # <<>> THEN Dedup(cleaned)
                        ELSE AllTextsFrom(page, selectors, k + 1) :
                          cleaned \in {SelectSeq([i \in 1..Len(elems) |-> CleanText(elems[i])],
                                                 LAMBDA text : text # None)}}) :
               elems \in {Elems(page, selectors[k])}})

_all_texts(page, selectors) == AllTextsFrom(page, selectors, 1)

\* the loop of _extract_json_ld over the script texts, from the k-th on
RECURSIVE JsonLdFrom(_, _)
JsonLdFrom(raw_items, k) ==
  IF k > Len(raw_items) THEN NoFields
  ELSE Only({IF raw = "" THEN JsonLdFrom(raw_items, k + 1)
             ELSE Only({IF ~payload.ok THEN JsonLdFrom(raw_items, k + 1)
                        ELSE Only({IF product.raised \/ product.keys # {} THEN product
                                   ELSE JsonLdFrom(raw_items, k + 1) :
                                     product \in {_find_product_json_ld(payload.value)}}) :
                          payload \in {json_loads(raw)}}) :
               raw \in {StrStrip(raw_items[k])}})

_extract_json_ld(page) == JsonLdFrom(page.scripts, 1)

JsonLdTable == [scripts \in ScriptLists |-> JsonLdFrom(scripts, 1)]

\* _extract_json_ld through the table
ExtractJsonLd(page) == JsonLdTable[page.scripts]

\* the loop of _availability over ADD_TO_CART_SELECTORS, from the k-th on
RECURSIVE ButtonFrom(_, _)
ButtonFrom(page, k) ==
  IF k > Len(ADD_TO_CART_SELECTORS) THEN None
  ELSE IF ADD_TO_CART_SELECTORS[k] \notin DOMAIN page.buttons THEN ButtonFrom(page, k + 1)
  ELSE IF page.buttons[ADD_TO_CART_SELECTORS[k]] = "disabled" THEN "out_of_stock"
  ELSE "in_stock"

\* _availability with the add-to-cart buttons probed before the DOM text
AvailabilityButtonsFirst(cfg, page) ==
  Only({IF button # None THEN button
        ELSE IF availability_text # None /\ AvailabilityTable[availability_text].normalized # None
        THEN AvailabilityTable[availability_text].normalized
        ELSE IF availability_text # None /\ AvailabilityTable[availability_text].low_stock
        THEN "in_stock"
        ELSE None :
          availability_text \in {_first_text(page, cfg.availability_selectors)},
          button \in {ButtonFrom(page, 1)}})

_availability(cfg, page) ==
  Only({IF availability_text # None /\ AvailabilityTable[availability_text].normalized # None
        THEN AvailabilityTable[availability_text].normalized
        ELSE IF availability_text # None /\ AvailabilityTable[availability_text].low_stock
        THEN "in_stock"
        ELSE ButtonFrom(page, 1) :
          availability_text \in {_first_text(page, cfg.availability_selectors)}})

\* what _scrape_product gives when it returns None
NoRecord ==
  [site |-> None, name |-> None, price |-> None, url |-> None, sizes |-> <<>>,
   availability |-> None, description |-> None]

\* OrElse with the structured data's value first
OrElseStructured(a, b) == IF b # None /\ b # "" THEN b ELSE a

\* a or b of two optional strings
OrElse(a, b) == IF a # None /\ a # "" THEN a ELSE b

\* ExtractProduct without the check of the name
ExtractProductNameless(cfg, url, page) ==
  Only({IF json_ld.raised THEN [outcome |-> "raised", record |-> NoRecord]
        ELSE [outcome |-> "record",
              record |->
                [site |-> cfg.name,
                 name |-> OrElse(_first_text(page, cfg.name_selectors), json_ld.name),
                 price |-> OrElse(_first_text(page, cfg.price_selectors), json_ld.price),
                 url |-> url,
                 sizes |-> FilterSizes(_all_texts(page, cfg.size_selectors)),
                 availability |-> OrElse(_availability(cfg, page), json_ld.availability),
                 description |->
                   _clean_description(
                     OrElse(_first_text(page, cfg.description_selectors),
                            json_ld.description))]] :
          json_ld \in {ExtractJsonLd(page)}})

\* lines 396-425 of _scrape_product on a loaded page: outcome is "record", "none"
\* (no name) or "raised"
ExtractProduct(cfg, url, page) ==
  Only({IF json_ld.raised THEN [outcome |-> "raised", record |-> NoRecord]
        ELSE Only({IF name = None \/ name = ""
                   THEN [outcome |-> "none", record |-> NoRecord]
                   ELSE [outcome |-> "record",
                         record |->
                           [site |-> cfg.name,
                            name |-> name,
                            price |-> OrElse(_first_text(page, cfg.price_selectors),
                                             json_ld.price),
                            url |-> url,
                            sizes |-> FilterSizes(_all_texts(page, cfg.size_selectors)),
                            availability |-> OrElse(_availability(cfg, page),
                                                    json_ld.availability),
                            description |->
                              _clean_description(
                                OrElse(_first_text(page, cfg.description_selectors),
                                       json_ld.description))]] :
                     name \in {OrElse(_first_text(page, cfg.name_selectors), json_ld.name)}}) :
          json_ld \in {ExtractJsonLd(page)}})

\* _scrape_product: the navigation, then the extraction
_scrape_product(cfg, url, page) ==
  IF page.goto = "fails" THEN [outcome |-> "none", record |-> NoRecord]
  ELSE ExtractProduct(cfg, url, page)

(***************************************************************************)
(* The inputs of the scans.                                                *)
(***************************************************************************)
MAX_CONCURRENCY == 4

\* the number of configured sites
NumSites == 2

\* max_products of the configured sites
MaxSiteProducts == 2

Sites == 1..NumSites

\* SITE_CONFIGS: one ScrapeConfig per site
SITE_CONFIGS ==
  [s \in Sites |->
     [name |-> "site" \o StrOfInt(s), base_url |-> "https://site" \o StrOfInt(s) \o ".io",
      product_link_selectors |-> ProductLinkSelectors,
      name_selectors |-> DEFAULT_NAME_SELECTORS,
      price_selectors |-> DEFAULT_PRICE_SELECTORS,
      size_selectors |-> DEFAULT_SIZE_SELECTORS,
      availability_selectors |-> DEFAULT_AVAILABILITY_SELECTORS,
      description_selectors |-> DEFAULT_DESCRIPTION_SELECTORS,
      pagination_selector |-> None, pagination_param |-> None,
      max_products |-> MaxSiteProducts, catalog_url |-> None]]

\* the sites above MAX_CONCURRENCY of the longer list of configurations
ExtraSites == 1

\* a list of MAX_CONCURRENCY + ExtraSites configurations; only the first site has a
\* product budget and a catalog to discover, which keeps the interleavings of the
\* tasks within reach
MANY_SITE_CONFIGS ==
  [s \in 1..(MAX_CONCURRENCY + ExtraSites) |->
     [SITE_CONFIGS[1] EXCEPT !.name = "site" \o StrOfInt(s),
                             !.base_url = "https://site" \o StrOfInt(s) \o ".io",
                             !.max_products = IF s = 1 THEN 1 ELSE 0,
                             !.catalog_url = IF s = 1 THEN None
                                             ELSE "https://site" \o StrOfInt(s) \o ".io/shop"]]

\* the endpoints of app/main.py that start a scan
Endpoints == {"/api/scan", "/api/scan/start", "/api/scan/start-all"}

\* run_scan_all is the scan of the endpoint, run_scan otherwise
CatalogMode(endpoint) == endpoint = "/api/scan/start-all"

\* the endpoint passes an on_site_done callback
HasCallback(endpoint) == endpoint # "/api/scan"

\* the n product URLs the site of a configuration gives
SiteUrls(cfg, n) ==
  [i \in 1..n |-> cfg.base_url \o "/products/" \o StrOfInt(i)]

\* the product pages of the scans
ScanPages ==
  {UnreachablePage,
   [goto |-> "ok", dom |-> ("h1" :> <<"Tee">>) @@ ("[class*='price']" :> <<"$20">>),
    buttons |-> <<>>, scripts |-> <<>>],
   [goto |-> "ok", dom |-> <<>>, buttons |-> <<>>,
    scripts |-> <<ScriptBlank, ScriptInvalid, ScriptTee>>],
   [goto |-> "ok", dom |-> "h1" :> <<"  ">>, buttons |-> <<>>,
    scripts |-> <<ScriptList, ScriptTee>>],
   [goto |-> "ok", dom |-> "[class*='price']" :> <<"$20">>, buttons |-> <<>>,
    scripts |-> <<ScriptNameless>>],
   [goto |-> "ok", dom |-> <<>>, buttons |-> <<>>, scripts |-> <<ScriptBadSpec>>]}

(***************************************************************************)
(* State.                                                                  *)
(***************************************************************************)
VARIABLES
  config,            \* self.config of the SiteScraper
  start_url,         \* the argument of _crawl_catalog_urls
  crawl_pc,          \* position in _crawl_catalog_urls
  collected,         \* the local collected of the running strategy
  seen_products,     \* the local seen_products of the running strategy
  visited_pages,     \* the local visited_pages of the generic crawl
  current_url,       \* the local current_url of the generic crawl
  pending_fallback,  \* the local pending_fallback of the generic crawl
  page_index,        \* the local page_index of the running strategy
  first_offer,       \* ghost local of the fast path: the distinct product URLs of the
                     \* first products.json page that held products, NoUrls before,
                     \* Discarded after a failed request threw collected URLs away
  opened,            \* history: the catalog pages the generic crawl navigated to, in order
  last_page,         \* history: what the last opened catalog page gave, NoPage before
  shopify_urls,      \* the value _crawl_shopify_catalog_urls returned, NoUrls before
  crawl_result,      \* the value _crawl_catalog_urls returned, NoUrls before
  product_pc,        \* position in _scrape_product
  product_url,       \* the argument of _scrape_product
  product_page,      \* the page the product URL serves
  product_result,    \* what _scrape_product gave: its outcome and its record
  site_configs,      \* SITE_CONFIGS as the running application imports it
  endpoint,          \* the endpoint of app/main.py that started the scan
  scan_pc,           \* position in run_scan or run_scan_all
  site_pc,           \* position of each site's scrape_site task
  site_urls,         \* the product URLs each site's scraper has still to scrape
  site_local,        \* the local results of each site's search or crawl_catalog
  site_results,      \* the local site_results of each site's scrape_site task
  site_error,        \* the local error of each site's scrape_site task
  site_pages,        \* the number of pages each site's task has opened and not closed
  results,           \* the local results of run_scan or run_scan_all
  calls,             \* history: the arguments of each site's on_site_done calls
  session,           \* the ScanSession of the scan in the cache
  last_scrape,       \* history: the page and the result of the last _scrape_product
  call_pc,           \* position of a direct call of a helper of SiteScraper
  call_arg,          \* the argument of the call
  call_results,      \* what the helper returned, call after call on its own result
  export_path,       \* export_path of the ScanSession
  exported_count,    \* exported_count of the ScanSession
  export_file        \* the file at export_path: whether it exists, its rows, and as
                     \* history the number of export_csv calls that wrote to it

crawl_vars ==
  <<config, start_url, crawl_pc, collected, seen_products, visited_pages, current_url,
    pending_fallback, page_index, first_offer, opened, last_page,
    shopify_urls, crawl_result>>

product_vars == <<product_pc, product_url, product_page, product_result>>

scan_vars ==
  <<site_configs, endpoint, scan_pc, site_pc, site_urls, site_local, site_results, site_error,
    site_pages, results, calls, session, last_scrape>>

call_vars == <<call_pc, call_arg, call_results>>

export_vars == <<export_path, exported_count, export_file>>

vars == <<crawl_vars, product_vars, scan_vars, call_vars, export_vars>>

\* a list variable that holds no list: None in the code
NoUrls == <<None>>

\* first_offer after a failed request that came after pages with products: what
\* those pages gave is not returned
Discarded == <<"<discarded>">>

\* last_page before any page is read
NoPage ==
  [url |-> None, product_urls |-> <<>>, new_count |-> 0, next_url |-> None,
   fallback_url |-> None, pending |-> None]

\* _scrape_product has not given anything yet
NoResult == [outcome |-> "pending", record |-> NoRecord]

\* no ScanSession
NoSession == [results |-> <<>>, sites_total |-> 0, sites_done |-> 0, status |-> None]

\* no catalog crawl, no single product scrape, no scan under way
CrawlIdle ==
  /\ start_url = None
  /\ crawl_pc = "idle"
  /\ collected = <<>>
  /\ seen_products = {}
  /\ visited_pages = {}
  /\ current_url = None
  /\ pending_fallback = None
  /\ page_index = 1
  /\ first_offer = NoUrls
  /\ opened = <<>>
  /\ last_page = NoPage
  /\ shopify_urls = NoUrls
  /\ crawl_result = NoUrls

\* ScanSession(...): no export yet, and no file of that scan in the export directory
ExportIdle ==
  /\ export_path = None
  /\ exported_count = 0
  /\ export_file = [exists |-> FALSE, rows |-> <<>>, writes |-> 0]

ProductIdle ==
  /\ product_pc = "idle"
  /\ product_url = None
  /\ product_page = UnreachablePage
  /\ product_result = NoResult

\* no helper is called directly
CallIdle ==
  /\ call_pc = "idle"
  /\ call_arg = None
  /\ call_results = <<>>

ScanIdle ==
  /\ site_configs = SITE_CONFIGS
  /\ endpoint = None
  /\ scan_pc = "idle"
  /\ site_pc = [s \in Sites |-> "idle"]
  /\ site_urls = [s \in Sites |-> <<>>]
  /\ site_local = [s \in Sites |-> <<>>]
  /\ site_results = [s \in Sites |-> <<>>]
  /\ site_error = [s \in Sites |-> None]
  /\ site_pages = [s \in Sites |-> 0]
  /\ results = <<>>
  /\ calls = [s \in Sites |-> <<>>]
  /\ session = NoSession
  /\ last_scrape = [page |-> UnreachablePage, result |-> NoResult]

(***************************************************************************)
(* _crawl_catalog_urls and _crawl_shopify_catalog_urls.                    *)
(***************************************************************************)
\* the head of the while loop of the generic crawl
LoopHead(cfg, current, coll, visited) ==
  /\ current # None /\ current # ""
  /\ Len(coll) < cfg.max_products
  /\ current \notin visited

\* ShopifyReturns with the result of the fast path ignored: the generic crawl
\* always runs
ShopifyReturnsIgnored(urls, seen, index) ==
  /\ shopify_urls' = urls
  /\ collected' = <<>>
  /\ seen_products' = {}
  /\ visited_pages' = {}
  /\ current_url' = start_url
  /\ pending_fallback' = None
  /\ page_index' = 1
  /\ crawl_pc' = "generic"
  /\ UNCHANGED crawl_result

\* _crawl_shopify_catalog_urls returns urls with its page counter at index:
\* _crawl_catalog_urls returns them when they are not empty, and otherwise sets up
\* the locals of the generic crawl
ShopifyReturns(urls, seen, index) ==
  /\ shopify_urls' = urls
  /\ IF urls # <<>>
     THEN /\ crawl_pc' = "returned"
          /\ crawl_result' = urls
          /\ collected' = urls
          /\ seen_products' = seen
          /\ page_index' = index
          /\ UNCHANGED <<visited_pages, current_url, pending_fallback>>
     ELSE /\ collected' = <<>>
          /\ seen_products' = {}
          /\ visited_pages' = {}
          /\ current_url' = start_url
          /\ pending_fallback' = None
          /\ page_index' = 1
          /\ IF LoopHead(config, start_url, <<>>, {})
             THEN crawl_pc' = "generic" /\ UNCHANGED crawl_result
             ELSE crawl_pc' = "returned" /\ crawl_result' = <<>>

\* _crawl_catalog_urls is called: the fast path starts, or does not apply
CrawlStart ==
  /\ crawl_pc = "start"
  /\ IF ShopifyApplies(start_url)
     THEN /\ crawl_pc' = "shopify"
          /\ collected' = <<>>
          /\ seen_products' = {}
          /\ page_index' = 1
          /\ UNCHANGED <<visited_pages, current_url, pending_fallback, shopify_urls,
                         crawl_result>>
     ELSE ShopifyReturns(<<>>, {}, 1)
  /\ UNCHANGED <<call_vars, product_vars, export_vars, scan_vars, config, start_url, first_offer, opened, last_page>>

\* ShopifyRequestFails that keeps what the earlier pages gave: a failed request
\* ends the enumeration like a page without products
ShopifyRequestFailsKeeps ==
  /\ crawl_pc = "shopify"
  /\ page_index <= MaxApiPages
  /\ \E failure \in {"transport", "status", "json"} :
       ShopifyReturns(collected, seen_products, page_index)
  /\ first_offer' = IF collected = <<>> THEN NoUrls ELSE Discarded
  /\ UNCHANGED <<call_vars, product_vars, export_vars, scan_vars, config, start_url, opened, last_page>>

\* one products.json request fails: a transport error, a status of 400 or more, or
\* a body that is not JSON; the fast path returns an empty list
ShopifyRequestFails ==
  /\ crawl_pc = "shopify"
  /\ page_index <= MaxApiPages
  /\ \E failure \in {"transport", "status", "json"} : ShopifyReturns(<<>>, {}, page_index)
  /\ first_offer' = IF collected = <<>> THEN NoUrls ELSE Discarded
  /\ UNCHANGED <<call_vars, product_vars, export_vars, scan_vars, config, start_url, opened, last_page>>

\* one products.json request answers with a payload that has no products: the
\* loop breaks and the fast path returns what it collected
ShopifyRequestEmpty ==
  /\ crawl_pc = "shopify"
  /\ page_index <= MaxApiPages
  /\ ShopifyReturns(collected, seen_products, page_index)
  /\ first_offer' = IF collected = <<>> THEN NoUrls ELSE first_offer
  /\ UNCHANGED <<call_vars, product_vars, export_vars, scan_vars, config, start_url, opened, last_page>>

\* one products.json request answers with a non-empty list of products
ShopifyRequestProducts ==
  /\ crawl_pc = "shopify"
  /\ page_index <= MaxApiPages
  /\ \E products \in ApiProducts \ {<<>>} :
       \E st \in {AddHandles(products, 1,
                             [collected |-> collected, seen_products |-> seen_products],
                             config)} :
          /\ first_offer' = IF first_offer = NoUrls THEN Offer(products, config)
                            ELSE first_offer
          /\ IF Len(st.collected) < config.max_products
             THEN /\ collected' = st.collected
                  /\ seen_products' = st.seen_products
                  /\ page_index' = page_index + 1
                  /\ UNCHANGED <<crawl_pc, visited_pages, current_url, pending_fallback,
                                 shopify_urls, crawl_result>>
             ELSE ShopifyReturns(st.collected, st.seen_products, page_index + 1)
  /\ UNCHANGED <<call_vars, product_vars, export_vars, scan_vars, config, start_url, opened, last_page>>

\* MarkVisited with the add forgotten
MarkVisitedNot(visited, url) == visited

\* visited_pages.add(current_url)
MarkVisited(visited, url) == visited \cup {url}

\* AfterPage that follows every next link: no stop at a visited URL, at a barren
\* page or at the budget, and no page count
AfterPageFollowsNext(visited, product_urls, st, next_url, fallback_url) ==
  /\ visited_pages' = visited
  /\ collected' = st.collected
  /\ seen_products' = st.seen_products
  /\ pending_fallback' = None
  /\ UNCHANGED <<opened, page_index, last_page>>
  /\ IF next_url # None
     THEN /\ current_url' = next_url
          /\ UNCHANGED <<crawl_pc, crawl_result>>
     ELSE /\ crawl_pc' = "returned"
          /\ crawl_result' = st.collected
          /\ UNCHANGED current_url

\* AfterPage with a visited structural next URL answered by a retry of the fallback
\* URL instead of a stop
AfterPageRetry(visited, product_urls, st, next_url, fallback_url) ==
  /\ visited_pages' = visited
  /\ collected' = st.collected
  /\ seen_products' = st.seen_products
  /\ opened' = Append(opened, current_url)
  /\ last_page' = [url |-> current_url, product_urls |-> product_urls,
                   new_count |-> st.new_count, next_url |-> next_url,
                   fallback_url |-> fallback_url, pending |-> pending_fallback]
  /\ pending_fallback' = None
  /\ IF st.new_count > 0 /\ next_url \in visited /\ fallback_url # None
        /\ fallback_url \notin visited /\ Len(st.collected) < config.max_products
     THEN /\ current_url' = fallback_url
          /\ page_index' = page_index + 1
          /\ UNCHANGED <<crawl_pc, crawl_result>>
     ELSE /\ crawl_pc' = "returned"
          /\ crawl_result' = st.collected
          /\ UNCHANGED <<current_url, page_index>>

\* AfterPage without the retry: a page without new links always stops the crawl
AfterPageNoRetry(visited, product_urls, st, next_url, fallback_url) ==
  /\ visited_pages' = visited
  /\ collected' = st.collected
  /\ seen_products' = st.seen_products
  /\ opened' = Append(opened, current_url)
  /\ last_page' = [url |-> current_url, product_urls |-> product_urls,
                   new_count |-> st.new_count, next_url |-> next_url,
                   fallback_url |-> fallback_url, pending |-> pending_fallback]
  /\ IF product_urls = <<>> \/ st.new_count = 0
     THEN /\ crawl_pc' = "returned"
          /\ crawl_result' = st.collected
          /\ UNCHANGED <<current_url, pending_fallback, page_index>>
     ELSE /\ pending_fallback' =
               (IF fallback_url # None /\ next_url # None /\ fallback_url # next_url
                THEN fallback_url ELSE None)
          /\ IF next_url = None \/ next_url \in visited
             THEN /\ crawl_pc' = "returned"
                  /\ crawl_result' = st.collected
                  /\ UNCHANGED <<current_url, page_index>>
             ELSE /\ current_url' = next_url
                  /\ page_index' = page_index + 1
                  /\ IF LoopHead(config, next_url, st.collected, visited)
                     THEN UNCHANGED <<crawl_pc, crawl_result>>
                     ELSE crawl_pc' = "returned" /\ crawl_result' = st.collected

\* AfterPage with the fallback armed again by a page without new links: such pages
\* can follow one another
AfterPageRearms(visited, product_urls, st, next_url, fallback_url) ==
  /\ visited_pages' = visited
  /\ collected' = st.collected
  /\ seen_products' = st.seen_products
  /\ opened' = Append(opened, current_url)
  /\ last_page' = [url |-> current_url, product_urls |-> product_urls,
                   new_count |-> st.new_count, next_url |-> next_url,
                   fallback_url |-> fallback_url, pending |-> pending_fallback]
  /\ IF product_urls = <<>> \/ st.new_count = 0
     THEN IF pending_fallback # None /\ pending_fallback \notin visited
          THEN /\ current_url' = pending_fallback
               /\ pending_fallback' =
                    (IF fallback_url # None /\ next_url # None /\ fallback_url # next_url
                     THEN fallback_url ELSE None)
               /\ page_index' = page_index + 1
               /\ IF LoopHead(config, pending_fallback, st.collected, visited)
                  THEN UNCHANGED <<crawl_pc, crawl_result>>
                  ELSE crawl_pc' = "returned" /\ crawl_result' = st.collected
          ELSE /\ crawl_pc' = "returned"
               /\ crawl_result' = st.collected
               /\ UNCHANGED <<current_url, pending_fallback, page_index>>
     ELSE /\ pending_fallback' =
               (IF fallback_url # None /\ next_url # None /\ fallback_url # next_url
                THEN fallback_url ELSE None)
          /\ IF next_url = None \/ next_url \in visited
             THEN /\ crawl_pc' = "returned"
                  /\ crawl_result' = st.collected
                  /\ UNCHANGED <<current_url, page_index>>
             ELSE /\ current_url' = next_url
                  /\ page_index' = page_index + 1
                  /\ IF LoopHead(config, next_url, st.collected, visited)
                     THEN UNCHANGED <<crawl_pc, crawl_result>>
                     ELSE crawl_pc' = "returned" /\ crawl_result' = st.collected

\* the part of one iteration of the generic crawl that follows the page's close
\* (the lines after the finally block), for the locals the page gave
AfterPage(visited, product_urls, st, next_url, fallback_url) ==
  /\ visited_pages' = visited
  /\ collected' = st.collected
  /\ seen_products' = st.seen_products
  /\ opened' = Append(opened, current_url)
  /\ last_page' = [url |-> current_url, product_urls |-> product_urls,
                   new_count |-> st.new_count, next_url |-> next_url,
                   fallback_url |-> fallback_url, pending |-> pending_fallback]
  /\ IF product_urls = <<>> \/ st.new_count = 0
     THEN IF pending_fallback # None /\ pending_fallback \notin visited
          THEN /\ current_url' = pending_fallback
               /\ pending_fallback' = None
               /\ page_index' = page_index + 1
               /\ IF LoopHead(config, pending_fallback, st.collected, visited)
                  THEN UNCHANGED <<crawl_pc, crawl_result>>
                  ELSE crawl_pc' = "returned" /\ crawl_result' = st.collected
          ELSE /\ crawl_pc' = "returned"
               /\ crawl_result' = st.collected
               /\ UNCHANGED <<current_url, pending_fallback, page_index>>
     ELSE /\ pending_fallback' =
               (IF fallback_url # None /\ next_url # None /\ fallback_url # next_url
                THEN fallback_url ELSE None)
          /\ IF next_url = None \/ next_url \in visited
             THEN /\ crawl_pc' = "returned"
                  /\ crawl_result' = st.collected
                  /\ UNCHANGED <<current_url, page_index>>
             ELSE /\ current_url' = next_url
                  /\ page_index' = page_index + 1
                  /\ IF LoopHead(config, next_url, st.collected, visited)
                     THEN UNCHANGED <<crawl_pc, crawl_result>>
                     ELSE crawl_pc' = "returned" /\ crawl_result' = st.collected

\* the generic crawl opens current_url and the page loads: one iteration of the loop
CrawlPage ==
  /\ crawl_pc = "generic"
  /\ \E found \in {_find_next_page_url(config, nav, current_url, page_index + 1) :
                     nav \in NavDoms} :
       \E product_urls \in PageProductUrls[config] :
         \E st \in {AddNewUrls(product_urls, 1,
                               [collected |-> collected, seen_products |-> seen_products,
                                new_count |-> 0],
                               config.max_products)} :
           AfterPage(MarkVisited(visited_pages, current_url), product_urls, st,
                     found[1], found[2])
  /\ UNCHANGED <<call_vars, product_vars, export_vars, scan_vars, config, start_url, first_offer, shopify_urls>>

\* the generic crawl opens current_url and the navigation raises: the page is
\* closed and the exception leaves _crawl_catalog_urls
CrawlPageRaises ==
  /\ crawl_pc = "generic"
  /\ visited_pages' = MarkVisited(visited_pages, current_url)
  /\ opened' = Append(opened, current_url)
  /\ crawl_pc' = "raised"
  /\ UNCHANGED <<call_vars, product_vars, export_vars, scan_vars, config, start_url, collected, seen_products, current_url,
                 pending_fallback, page_index, first_offer, last_page,
                 shopify_urls, crawl_result>>

CrawlInit ==
  /\ config \in Targets
  /\ start_url \in StartUrls
  /\ crawl_pc = "start"
  /\ collected = <<>>
  /\ seen_products = {}
  /\ visited_pages = {}
  /\ current_url = None
  /\ pending_fallback = None
  /\ page_index = 1
  /\ first_offer = NoUrls
  /\ opened = <<>>
  /\ last_page = NoPage
  /\ shopify_urls = NoUrls
  /\ crawl_result = NoUrls
  /\ ProductIdle
  /\ ExportIdle
  /\ ScanIdle
  /\ CallIdle

CrawlNext ==
  \/ CrawlStart
  \/ ShopifyRequestFails
  \/ ShopifyRequestEmpty
  \/ ShopifyRequestProducts
  \/ CrawlPage
  \/ CrawlPageRaises

SpecCrawl == CrawlInit /\ [][CrawlNext]_vars

\* the crawls of the targets with a budget below MaxBudget
SmallCrawlInit == CrawlInit /\ config.max_products < MaxBudget

\* every iteration of the generic crawl ends: each navigation and DOM call is
\* bounded by its timeout
SpecCrawlFair ==
  SmallCrawlInit /\ [][CrawlNext]_vars /\ WF_vars(CrawlPage \/ CrawlPageRaises)

\* the page counter of the fast path after one more page, once it has passed
\* MaxApiPages: the code counts on without limit, the model keeps the parity
LaterPage(index) == MaxApiPages + 1 + ((index - MaxApiPages) % 2)

\* one products.json request after MaxApiPages pages that each gave products below
\* the budget: the request fails, or answers without products, or answers with a
\* non-empty list of products
ShopifyRequestLater ==
  /\ crawl_pc = "shopify"
  /\ page_index > MaxApiPages
  /\ \E outcome \in {"transport", "status", "json", "payload"} :
       IF outcome # "payload"
       THEN /\ ShopifyReturns(<<>>, {}, page_index)
            /\ first_offer' = IF collected = <<>> THEN NoUrls ELSE Discarded
       ELSE \E products \in ApiProducts :
              IF products = <<>>
              THEN /\ ShopifyReturns(collected, seen_products, page_index)
                   /\ first_offer' = IF collected = <<>> THEN NoUrls ELSE first_offer
              ELSE \E st \in {AddHandles(products, 1,
                                         [collected |-> collected,
                                          seen_products |-> seen_products],
                                         config)} :
                     /\ first_offer' = IF first_offer = NoUrls
                                       THEN Offer(products, config) ELSE first_offer
                     /\ IF Len(st.collected) < config.max_products
                        THEN /\ collected' = st.collected
                             /\ seen_products' = st.seen_products
                             /\ page_index' = LaterPage(page_index)
                             /\ UNCHANGED <<crawl_pc, visited_pages, current_url,
                                            pending_fallback, shopify_urls,
                                            crawl_result>>
                        ELSE ShopifyReturns(st.collected, st.seen_products,
                                            LaterPage(page_index))
  /\ UNCHANGED <<call_vars, product_vars, export_vars, scan_vars, config, start_url, opened, last_page>>

\* _crawl_shopify_catalog_urls alone, with no limit on the number of its requests
FastPathNext ==
  \/ CrawlStart
  \/ ShopifyRequestFails
  \/ ShopifyRequestEmpty
  \/ ShopifyRequestProducts
  \/ ShopifyRequestLater

\* every request of the fast path ends: context.request.get is bounded by its
\* timeout of 45 seconds
SpecFastPath ==
  CrawlInit /\ [][FastPathNext]_vars
  /\ WF_vars(ShopifyRequestFails \/ ShopifyRequestEmpty \/ ShopifyRequestProducts
                \/ ShopifyRequestLater)

(***************************************************************************)
(* _scrape_product on one product page.                                    *)
(***************************************************************************)
\* the call returns: None after a failed navigation or without a name, else the record
ScrapeProduct ==
  /\ product_pc = "called"
  /\ \E result \in {_scrape_product(config, product_url, product_page)} :
       /\ product_result' = result
       /\ product_pc' = IF result.outcome = "raised" THEN "raised" ELSE "returned"
  /\ UNCHANGED <<call_vars, crawl_vars, product_url, product_page, scan_vars, export_vars>>

\* a call on the loaded page raises (a timeout, a closed tab)
ScrapeProductRaises ==
  /\ product_pc = "called"
  /\ product_page.goto = "ok"
  /\ product_result' = [outcome |-> "raised", record |-> NoRecord]
  /\ product_pc' = "raised"
  /\ UNCHANGED <<call_vars, crawl_vars, product_url, product_page, scan_vars, export_vars>>

\* the scraper of ProductInit: the first target
ProductTargets ==
  {cfg \in Targets : cfg.max_products = 1 /\ cfg.pagination_selector = None}

ProductInit ==
  /\ config \in ProductTargets
  /\ CrawlIdle
  /\ product_pc = "called"
  /\ product_url = "https://s.io/products/a"
  /\ product_page \in ProductPages
  /\ product_result = NoResult
  /\ ScanIdle
  /\ CallIdle
  /\ ExportIdle

ProductNext == ScrapeProduct \/ ScrapeProductRaises

SpecProduct == ProductInit /\ [][ProductNext]_vars

(***************************************************************************)
(* run_scan and run_scan_all: one scrape_site task per configured site.    *)
(***************************************************************************)
\* the tasks that hold the semaphore
Holders == {s \in DOMAIN site_configs : site_pc[s] \notin {"idle", "waiting", "done"}}

\* a semaphore that lets every task in
SemaphoreAlwaysFree(held) == TRUE

\* asyncio.Semaphore(MAX_CONCURRENCY): a task enters while fewer than that hold it
SemaphoreFree(held) == held < MAX_CONCURRENCY

\* async with semaphore: a waiting task enters
AcquireSemaphore ==
  /\ scan_pc = "gathering"
  /\ \E s \in DOMAIN site_configs :
       /\ site_pc[s] = "waiting"
       /\ SemaphoreFree(Cardinality(Holders))
       /\ site_pc' = [site_pc EXCEPT ![s] = "running"]
  /\ UNCHANGED <<call_vars, crawl_vars, product_vars, export_vars, site_pages, site_configs, endpoint, scan_pc, site_urls, site_local,
                 site_results, site_error, results, calls, session, last_scrape>>

\* NotifyLog with the callback left out after an exception
NotifyLogOnSuccess(callback, log, records, error) ==
  IF callback /\ error = None
  THEN Append(log, [records |-> records, error |-> error])
  ELSE log

\* if on_site_done: await on_site_done(config.name, site_results, error)
NotifyLog(callback, log, records, error) ==
  IF callback THEN Append(log, [records |-> records, error |-> error]) ELSE log

\* MarkSiteDone that counts the sites that passed records only
MarkSiteDoneWithRecords(entry, records) ==
  IF entry = NoSession THEN entry
  ELSE [entry EXCEPT !.results = @ \o records,
                     !.sites_done = IF records = <<>> THEN @ ELSE @ + 1]

\* on_site_done of _run_scan_task and _run_scan_all_task on the ScanSession, which
\* add_results and mark_site_done leave alone when the cache has no entry
MarkSiteDone(entry, records) ==
  IF entry = NoSession THEN entry
  ELSE [entry EXCEPT !.results = @ \o records, !.sites_done = @ + 1]

\* cache.mark_complete(scan_id)
MarkComplete(entry) ==
  IF entry = NoSession THEN entry ELSE [entry EXCEPT !.status = "complete"]

\* the end of scrape_site of site s, from the return or the exception of its search
\* or crawl_catalog on: the callback, which does not await, and the release of the
\* semaphore; no other task runs in between
SiteNotifies(s, records, error) ==
  /\ site_results' = [site_results EXCEPT ![s] = records]
  /\ site_error' = [site_error EXCEPT ![s] = error]
  /\ calls' = [calls EXCEPT ![s] = NotifyLog(HasCallback(endpoint), @, records, error)]
  /\ session' = IF HasCallback(endpoint) THEN MarkSiteDone(session, records) ELSE session
  /\ site_pc' = [site_pc EXCEPT ![s] = "done"]

\* self.config.catalog_url = candidate in the crawl_catalog of site s: self.config is
\* the entry of SITE_CONFIGS itself, and the site serves its catalog at the first
\* candidate; a configuration with a catalog URL keeps it
CacheCatalog(configs, s) ==
  IF configs[s].catalog_url = None
  THEN [configs EXCEPT ![s].catalog_url = urljoin(configs[s].base_url, CATALOG_PATHS[1])]
  ELSE configs

\* search, or crawl_catalog after its discovery and its catalog crawl, has n product
\* URLs and starts on the first max_products of them
SiteCollects ==
  /\ \E s \in DOMAIN site_configs :
       /\ site_pc[s] = "running"
       /\ \E n \in 0..(IF CatalogMode(endpoint) THEN MaxSiteProducts ELSE MaxSiteProducts + 1) :
            site_urls' = [site_urls EXCEPT ![s] =
              SubSeq(SiteUrls(site_configs[s], n), 1,
                     IF n < site_configs[s].max_products THEN n
                     ELSE site_configs[s].max_products)]
       /\ site_configs' = IF CatalogMode(endpoint) THEN CacheCatalog(site_configs, s)
                          ELSE site_configs
       /\ site_pc' = [site_pc EXCEPT ![s] = "scraping"]
  /\ UNCHANGED <<call_vars, crawl_vars, product_vars, export_vars, site_pages, endpoint, scan_pc, site_local,
                 site_results, site_error, results, calls, session, last_scrape>>

\* crawl_catalog finds no catalog and returns the empty list
SiteNoCatalog ==
  /\ CatalogMode(endpoint)
  /\ \E s \in DOMAIN site_configs :
       /\ site_pc[s] = "running"
       /\ site_configs[s].catalog_url = None
       /\ SiteNotifies(s, <<>>, None)
  /\ UNCHANGED <<call_vars, crawl_vars, product_vars, export_vars, site_pages, site_configs, endpoint, scan_pc, site_urls, site_local,
                 results, last_scrape>>

\* SiteRaises without the except clause: the exception leaves scrape_site and
\* gather raises it out of the scan
SiteRaisesPropagates ==
  /\ \E s \in DOMAIN site_configs :
       /\ site_pc[s] = "running"
       /\ site_error' = [site_error EXCEPT ![s] = "Exception"]
       /\ site_pc' = [site_pc EXCEPT ![s] = "done"]
  /\ scan_pc' = "raised"
  /\ UNCHANGED <<call_vars, crawl_vars, product_vars, export_vars, site_pages, site_configs, endpoint, site_urls, site_local,
                 site_results, results, calls, session, last_scrape>>

\* search or crawl_catalog raises before its product loop: in the discovery, or in
\* the catalog crawl after the discovery has cached the catalog URL
SiteRaises ==
  /\ \E s \in DOMAIN site_configs :
       /\ site_pc[s] = "running"
       /\ site_configs' \in {site_configs} \cup
            (IF CatalogMode(endpoint) THEN {CacheCatalog(site_configs, s)} ELSE {})
       /\ SiteNotifies(s, <<>>, "Exception")
  /\ UNCHANGED <<call_vars, crawl_vars, product_vars, export_vars, site_pages, endpoint, scan_pc, site_urls, site_local,
                 results, last_scrape>>

\* SiteRaisesInLoop with the records extracted so far handed to the callback, and
\* to the callback only
SiteRaisesInLoopPassesPartial ==
  /\ HasCallback(endpoint)
  /\ \E s \in DOMAIN site_configs :
       /\ site_pc[s] = "scraping"
       /\ SiteNotifies(s, site_local[s], "Exception")
  /\ UNCHANGED <<call_vars, crawl_vars, product_vars, export_vars, site_pages, site_configs, endpoint, scan_pc, site_urls, site_local,
                 results, last_scrape>>

\* search or crawl_catalog raises in or after its product loop: the log callback,
\* which the endpoints that pass on_site_done pass too, raises at the line that
\* announces a product or at the closing line, outside the try of the loop; the
\* local results of the method are lost with its frame (site_local keeps them as
\* history)
SiteRaisesInLoop ==
  /\ HasCallback(endpoint)
  /\ \E s \in DOMAIN site_configs :
       /\ site_pc[s] = "scraping"
       /\ SiteNotifies(s, <<>>, "Exception")
  /\ UNCHANGED <<call_vars, crawl_vars, product_vars, export_vars, site_pages, site_configs, endpoint, scan_pc, site_urls, site_local,
                 results, last_scrape>>

\* SiteScrapesProduct without the try of the loop: an exception of _scrape_product
\* leaves search or crawl_catalog
SiteScrapesProductUncaught ==
  /\ \E s \in DOMAIN site_configs :
       /\ site_pc[s] = "scraping"
       /\ site_urls[s] # <<>>
       /\ \E page \in ScanPages :
            \E result \in {_scrape_product(site_configs[s], Head(site_urls[s]), page)} :
              /\ site_local' = [site_local EXCEPT ![s] =
                   IF result.outcome = "record" THEN Append(@, result.record) ELSE @]
              /\ last_scrape' = [page |-> page, result |-> result]
              /\ IF result.outcome = "raised" THEN SiteNotifies(s, <<>>, "Exception")
                 ELSE UNCHANGED <<site_pc, site_error, site_results, calls, session>>
       /\ site_urls' = [site_urls EXCEPT ![s] = Tail(@)]
  /\ UNCHANGED <<call_vars, crawl_vars, product_vars, export_vars, site_pages, site_configs, endpoint, scan_pc, results>>

\* one iteration of the product loop of search or crawl_catalog
SiteScrapesProduct ==
  /\ \E s \in DOMAIN site_configs :
       /\ site_pc[s] = "scraping"
       /\ site_urls[s] # <<>>
       /\ \E page \in ScanPages :
            \E result \in {_scrape_product(site_configs[s], Head(site_urls[s]), page)} :
              /\ site_local' = [site_local EXCEPT ![s] =
                   IF result.outcome = "record" THEN Append(@, result.record) ELSE @]
              /\ last_scrape' = [page |-> page, result |-> result]
       /\ site_urls' = [site_urls EXCEPT ![s] = Tail(@)]
  /\ UNCHANGED <<call_vars, crawl_vars, product_vars, export_vars, site_pages, site_configs, endpoint, scan_pc, site_pc,
                 site_results, site_error, results, calls, session>>

\* search or crawl_catalog returns its results, scrape_site extends the scan's with
\* them and ends
SiteReturns ==
  /\ \E s \in DOMAIN site_configs :
       /\ site_pc[s] = "scraping"
       /\ site_urls[s] = <<>>
       /\ site_local' = [site_local EXCEPT ![s] = <<>>]
       /\ results' = results \o site_local[s]
       /\ SiteNotifies(s, site_local[s], None)
  /\ UNCHANGED <<call_vars, crawl_vars, product_vars, export_vars, site_pages, site_configs, endpoint, scan_pc, site_urls,
                 last_scrape>>

\* gather is over: the scan returns its results and the endpoint completes the session
ScanReturns ==
  /\ scan_pc = "gathering"
  /\ \A s \in DOMAIN site_configs : site_pc[s] = "done"
  /\ scan_pc' = "returned"
  /\ session' = IF HasCallback(endpoint) THEN MarkComplete(session)
                ELSE [results |-> results, sites_total |-> Len(site_configs),
                      sites_done |-> Len(site_configs), status |-> "complete"]
  /\ UNCHANGED <<call_vars, crawl_vars, product_vars, export_vars, site_pages, site_configs, endpoint, site_pc, site_urls, site_local,
                 site_results, site_error, results, calls, last_scrape>>

\* run_scan or run_scan_all has created one scrape_site task per entry of configs
ScanStarts(configs) ==
  /\ config \in ProductTargets
  /\ CrawlIdle
  /\ ProductIdle
  /\ ExportIdle
  /\ CallIdle
  /\ site_configs = configs
  /\ endpoint \in Endpoints
  /\ scan_pc = "gathering"
  /\ site_pc = [s \in DOMAIN configs |-> "waiting"]
  /\ site_urls = [s \in DOMAIN configs |-> <<>>]
  /\ site_local = [s \in DOMAIN configs |-> <<>>]
  /\ site_results = [s \in DOMAIN configs |-> <<>>]
  /\ site_error = [s \in DOMAIN configs |-> None]
  /\ site_pages = [s \in DOMAIN configs |-> 0]
  /\ results = <<>>
  /\ calls = [s \in DOMAIN configs |-> <<>>]
  /\ session = IF HasCallback(endpoint)
               THEN [results |-> <<>>, sites_total |-> Len(configs), sites_done |-> 0,
                     status |-> "running"]
               ELSE NoSession
  /\ last_scrape = [page |-> UnreachablePage, result |-> NoResult]

ScanInit == ScanStarts(SITE_CONFIGS)

ScanNext ==
  \/ AcquireSemaphore
  \/ SiteCollects
  \/ SiteNoCatalog
  \/ SiteRaises
  \/ SiteRaisesInLoop
  \/ SiteScrapesProduct
  \/ SiteReturns
  \/ ScanReturns

SpecScan == ScanInit /\ [][ScanNext]_vars

\* the next request of an endpoint starts the next scan of the process, over the
\* same SITE_CONFIGS objects
ScanAgain ==
  /\ scan_pc = "returned"
  /\ endpoint' \in Endpoints
  /\ scan_pc' = "gathering"
  /\ site_pc' = [s \in DOMAIN site_configs |-> "waiting"]
  /\ site_urls' = [s \in DOMAIN site_configs |-> <<>>]
  /\ site_local' = [s \in DOMAIN site_configs |-> <<>>]
  /\ site_results' = [s \in DOMAIN site_configs |-> <<>>]
  /\ site_error' = [s \in DOMAIN site_configs |-> None]
  /\ results' = <<>>
  /\ calls' = [s \in DOMAIN site_configs |-> <<>>]
  /\ session' = IF HasCallback(endpoint')
                THEN [results |-> <<>>, sites_total |-> Len(site_configs), sites_done |-> 0,
                      status |-> "running"]
                ELSE NoSession
  /\ last_scrape' = [page |-> UnreachablePage, result |-> NoResult]
  /\ UNCHANGED <<call_vars, crawl_vars, product_vars, export_vars, site_pages, site_configs>>

RescanNext == ScanNext \/ ScanAgain

\* scan after scan in one process
SpecRescan == ScanInit /\ [][RescanNext]_vars

\* ScanCache.get of a status request after ttl_seconds: the entry of the scan is
\* dropped from the cache, while the scan goes on
SessionExpires ==
  /\ HasCallback(endpoint)
  /\ session # NoSession
  /\ session' = NoSession
  /\ UNCHANGED <<call_vars, crawl_vars, product_vars, export_vars, site_pages, site_configs, endpoint, scan_pc,
                 site_pc, site_urls, site_local, site_results, site_error, results, calls,
                 last_scrape>>

SessionNext == ScanNext \/ SessionExpires

\* a scan whose session the cache may drop at any moment
SpecSession == ScanInit /\ [][SessionNext]_vars

\* the header row export_csv writes to a new file
HeaderRow == <<"site", "name", "price", "url", "sizes", "availability", "description">>

\* the row export_csv writes for a result: row.get(key) or "" for each column, the
\* sizes joined with ", "
CsvRow(row) ==
  <<OrElse(row.site, ""), OrElse(row.name, ""), OrElse(row.price, ""), OrElse(row.url, ""),
    StrJoin(row.sizes, ", "), OrElse(row.availability, ""), OrElse(row.description, "")>>

\* the rows written for the results from the k-th on
RECURSIVE CsvRows(_, _)
CsvRows(rows, k) ==
  IF k > Len(rows) THEN <<>> ELSE <<CsvRow(rows[k])>> \o CsvRows(rows, k + 1)

\* NewRows without the slice: every export writes every result
NewRowsAll(entry_results, count) == entry_results

\* new_rows = entry.results[entry.exported_count :]
NewRows(entry_results, count) == SubSeq(entry_results, count + 1, Len(entry_results))

\* cache.export_csv(scan_id, "exports") of a status page, at any moment of the scan
\* or after it, on a session the cache holds: without new rows and with the file
\* there it returns the path; otherwise it appends the header, if the file is new,
\* and the new rows, and sets exported_count to the number of results
ExportCsv ==
  /\ session # NoSession
  /\ export_path' = IF export_path = None THEN "exports/scan_1.csv" ELSE export_path
  /\ \E new_rows \in {NewRows(session.results, exported_count)} :
       IF new_rows = <<>> /\ export_file.exists
       THEN UNCHANGED <<exported_count, export_file>>
       ELSE /\ export_file' =
                 [exists |-> TRUE,
                  rows |-> export_file.rows
                             \o (IF export_file.exists THEN <<>> ELSE <<HeaderRow>>)
                             \o CsvRows(new_rows, 1),
                  writes |-> export_file.writes + 1]
            /\ exported_count' = Len(session.results)
  /\ UNCHANGED <<call_vars, crawl_vars, product_vars, scan_vars>>

ExportNext == ScanNext \/ ExportCsv

\* a scan whose session is exported again and again while the sites add results
SpecExport == ScanInit /\ [][ExportNext]_vars

\* a scan of more sites than the semaphore admits
ManySitesInit == ScanStarts(MANY_SITE_CONFIGS)

SpecManySites == ManySitesInit /\ [][ScanNext]_vars

(***************************************************************************)
(* The pages of a scan: the steps of a site's task from one await of a     *)
(* page to the next, in place of the whole search or crawl of SiteCollects *)
(* and the whole _scrape_product of SiteScrapesProduct.                    *)
(***************************************************************************)
\* page = await self.context.new_page(): of search, of _discover_catalog_url or of
\* an iteration of _crawl_catalog_urls when the task is running, of _scrape_product
\* when it has a product URL to scrape
TaskOpensPage ==
  /\ \E s \in DOMAIN site_configs :
       /\ \/ site_pc[s] = "running" /\ site_pc' = [site_pc EXCEPT ![s] = "catalog page"]
          \/ /\ site_pc[s] = "scraping" /\ site_urls[s] # <<>>
             /\ site_pc' = [site_pc EXCEPT ![s] = "product page"]
       /\ site_pages' = [site_pages EXCEPT ![s] = @ + 1]
  /\ UNCHANGED <<call_vars, crawl_vars, product_vars, export_vars, site_configs, endpoint, scan_pc, site_urls,
                 site_local, site_results, site_error, results, calls, session, last_scrape>>

\* CatalogPageCloses without the finally clauses: an exception leaves the page open
CatalogPageClosesUnlessRaised ==
  /\ \E s \in DOMAIN site_configs :
       /\ site_pc[s] = "catalog page"
       /\ \E outcome \in {"raised", "next page", "no catalog", "collected"} :
            /\ site_pages' = [site_pages EXCEPT ![s] = IF outcome = "raised" THEN @ ELSE @ - 1]
            /\ site_configs' \in {site_configs} \cup
                 (IF CatalogMode(endpoint) /\ outcome # "no catalog"
                  THEN {CacheCatalog(site_configs, s)} ELSE {})
            /\ CASE outcome = "raised" ->
                     /\ SiteNotifies(s, <<>>, "Exception")
                     /\ UNCHANGED site_urls
                 [] outcome = "next page" ->
                     /\ CatalogMode(endpoint)
                     /\ site_pc' = [site_pc EXCEPT ![s] = "running"]
                     /\ UNCHANGED <<site_urls, site_results, site_error, calls, session>>
                 [] outcome = "no catalog" ->
                     /\ CatalogMode(endpoint) /\ site_configs[s].catalog_url = None
                     /\ SiteNotifies(s, <<>>, None)
                     /\ UNCHANGED site_urls
                 [] outcome = "collected" ->
                     /\ \E n \in 0..MaxSiteProducts :
                          site_urls' = [site_urls EXCEPT ![s] =
                            SubSeq(SiteUrls(site_configs[s], n), 1,
                                   IF n < site_configs[s].max_products THEN n
                                   ELSE site_configs[s].max_products)]
                     /\ site_pc' = [site_pc EXCEPT ![s] = "scraping"]
                     /\ UNCHANGED <<site_results, site_error, calls, session>>
  /\ UNCHANGED <<call_vars, crawl_vars, product_vars, export_vars, endpoint, scan_pc, site_local, results,
                 last_scrape>>

\* the page of search, of _discover_catalog_url or of an iteration of
\* _crawl_catalog_urls is closed, in the finally clause after an exception too: the
\* exception leaves the method, or the crawl goes on to its next page, or the
\* discovery has found no catalog, or the method has its product URLs
CatalogPageCloses ==
  /\ \E s \in DOMAIN site_configs :
       /\ site_pc[s] = "catalog page"
       /\ site_pages' = [site_pages EXCEPT ![s] = @ - 1]
       /\ \E outcome \in {"raised", "next page", "no catalog", "collected"} :
            /\ site_configs' \in {site_configs} \cup
                 (IF CatalogMode(endpoint) /\ outcome # "no catalog"
                  THEN {CacheCatalog(site_configs, s)} ELSE {})
            /\ CASE outcome = "raised" ->
                     /\ SiteNotifies(s, <<>>, "Exception")
                     /\ UNCHANGED site_urls
                 [] outcome = "next page" ->
                     /\ CatalogMode(endpoint)
                     /\ site_pc' = [site_pc EXCEPT ![s] = "running"]
                     /\ UNCHANGED <<site_urls, site_results, site_error, calls, session>>
                 [] outcome = "no catalog" ->
                     /\ CatalogMode(endpoint) /\ site_configs[s].catalog_url = None
                     /\ SiteNotifies(s, <<>>, None)
                     /\ UNCHANGED site_urls
                 [] outcome = "collected" ->
                     /\ \E n \in 0..MaxSiteProducts :
                          site_urls' = [site_urls EXCEPT ![s] =
                            SubSeq(SiteUrls(site_configs[s], n), 1,
                                   IF n < site_configs[s].max_products THEN n
                                   ELSE site_configs[s].max_products)]
                     /\ site_pc' = [site_pc EXCEPT ![s] = "scraping"]
                     /\ UNCHANGED <<site_results, site_error, calls, session>>
  /\ UNCHANGED <<call_vars, crawl_vars, product_vars, export_vars, endpoint, scan_pc, site_local, results,
                 last_scrape>>

\* the page of _scrape_product is closed in its finally clause, whatever the page
\* gave: the iteration of the product loop is over
ProductPageCloses ==
  /\ \E s \in DOMAIN site_configs :
       /\ site_pc[s] = "product page"
       /\ site_pages' = [site_pages EXCEPT ![s] = @ - 1]
       /\ \E page \in ScanPages :
            \E result \in {_scrape_product(site_configs[s], Head(site_urls[s]), page)} :
              /\ site_local' = [site_local EXCEPT ![s] =
                   IF result.outcome = "record" THEN Append(@, result.record) ELSE @]
              /\ last_scrape' = [page |-> page, result |-> result]
       /\ site_urls' = [site_urls EXCEPT ![s] = Tail(@)]
       /\ site_pc' = [site_pc EXCEPT ![s] = "scraping"]
  /\ UNCHANGED <<call_vars, crawl_vars, product_vars, export_vars, site_configs, endpoint, scan_pc,
                 site_results, site_error, results, calls, session>>

TabsNext ==
  \/ AcquireSemaphore
  \/ SiteRaises
  \/ TaskOpensPage
  \/ CatalogPageCloses
  \/ ProductPageCloses
  \/ SiteRaisesInLoop
  \/ SiteReturns
  \/ ScanReturns

\* the scan of more sites than the semaphore admits, page by page
SpecTabs == ManySitesInit /\ [][TabsNext]_vars

(***************************************************************************)
(* Direct calls of the pure helpers of SiteScraper.                        *)
(***************************************************************************)
\* the most query fields of a URL handed to _normalize_product_url
MaxFields == 2

\* query fields: tracking and other parameters, a repeated key, a blank value, a
\* field without =, an empty field, a key in another case
QueryFields ==
  {"utm_source=x", "cid=1", "gclid=9", "utm_=1", "color=red", "color=blue", "size=",
   "ref", "", "Utm_id=3", "session=s1&fbclid=f"}

\* the URLs handed to _normalize_product_url
NormalizeInputs ==
  {base \o (IF fields = <<>> THEN "" ELSE "?" \o StrJoin(fields, "&")) \o fragment :
     base \in {"https://s.io/products/a", "/p/b/", "HTTPS://s.io"},
     fields \in SeqsUpTo(QueryFields, MaxFields),
     fragment \in {"", "#top", "#cid=1"}}

\* url = self._normalize_product_url(url), on the argument and then on each result
NormalizeUrl ==
  /\ call_pc \in {"normalize", "normalized"}
  /\ call_results' =
       Append(call_results,
              _normalize_product_url(IF call_results = <<>> THEN call_arg
                                     ELSE call_results[Len(call_results)]))
  /\ call_pc' = IF call_results = <<>> THEN "normalized" ELSE "done"
  /\ UNCHANGED <<crawl_vars, product_vars, export_vars, scan_vars, call_arg>>

\* the caller drops the URL after one normalization
NormalizeOnce ==
  /\ call_pc = "normalized"
  /\ call_pc' = "done"
  /\ UNCHANGED <<crawl_vars, product_vars, export_vars, scan_vars, call_arg, call_results>>

NormalizeInit ==
  /\ config \in ProductTargets
  /\ CrawlIdle
  /\ ProductIdle
  /\ ExportIdle
  /\ ScanIdle
  /\ call_pc = "normalize"
  /\ call_arg \in NormalizeInputs
  /\ call_results = <<>>

NormalizeNext == NormalizeUrl \/ NormalizeOnce

SpecNormalize == NormalizeInit /\ [][NormalizeNext]_vars

\* the texts of one numeric size each handed to _extract_size_tokens: a region
\* prefix or none, a number, a second number of a range or none
SizeTexts ==
  {prefix \o low \o high :
     prefix \in {"", "UK ", "us", "EU "},
     low \in {"0", "2", "6", "8", "29", "30", "31", "40", "7.5", "30.0", "30.5"},
     high \in {"", "-4", "-8", "-8.5", "-12", "-31"}}

\* tokens = self._extract_size_tokens(text)
ExtractSizeTokens ==
  /\ call_pc = "size_tokens"
  /\ call_results' = <<_extract_size_tokens(call_arg)>>
  /\ call_pc' = "done"
  /\ UNCHANGED <<crawl_vars, product_vars, export_vars, scan_vars, call_arg>>

SizesInit ==
  /\ config \in ProductTargets
  /\ CrawlIdle
  /\ ProductIdle
  /\ ExportIdle
  /\ ScanIdle
  /\ call_pc = "size_tokens"
  /\ call_arg \in SizeTexts
  /\ call_results = <<>>

SizesNext == ExtractSizeTokens

SpecSizes == SizesInit /\ [][SizesNext]_vars

\* the most elements one product-link selector matches on the page of a direct call
MaxMatches == 2

\* the product-link elements of a page, by selector: the href of each element
\* matched, "" for an element without one
SelectorMatches ==
  SeqsUpTo(LinkHrefs \cup {""}, MaxMatches) \X SeqsUpTo(LinkHrefs \cup {""}, MaxMatches)

\* product_urls = await self._collect_product_urls(page)
CollectProductUrls ==
  /\ call_pc = "collect"
  /\ call_results' = <<_collect_product_urls(config, call_arg)>>
  /\ call_pc' = "done"
  /\ UNCHANGED <<crawl_vars, product_vars, export_vars, scan_vars, call_arg>>

CollectInit ==
  /\ config \in ProductTargets
  /\ CrawlIdle
  /\ ProductIdle
  /\ ExportIdle
  /\ ScanIdle
  /\ call_pc = "collect"
  /\ call_arg \in SelectorMatches
  /\ call_results = <<>>

CollectNext == CollectProductUrls

SpecCollect == CollectInit /\ [][CollectNext]_vars

(***************************************************************************)
(* _discover_catalog_url and the head of crawl_catalog.  call_arg is the   *)
(* site: what each candidate URL serves, in the order of CATALOG_PATHS.    *)
(***************************************************************************)
\* what a candidate URL serves: a navigation that fails, or a page with its
\* product-link elements by selector, whose locators answer or raise
CandidatePages ==
  {[goto |-> "fail", locator |-> "ok", links |-> <<<<>>, <<>>>>],
   [goto |-> "ok", locator |-> "ok", links |-> <<<<>>, <<>>>>],
   [goto |-> "ok", locator |-> "ok", links |-> <<<<>>, <<"/about", "">>>>],
   [goto |-> "ok", locator |-> "ok", links |-> <<<<>>, <<"/about", "/products/a">>>>],
   [goto |-> "ok", locator |-> "raised", links |-> <<<<"/products/a">>, <<>>>>]}

\* candidates = [urljoin(self.config.base_url, path) for path in CATALOG_PATHS]
Candidates(cfg) == [k \in DOMAIN CATALOG_PATHS |-> urljoin(cfg.base_url, CATALOG_PATHS[k])]

\* the candidates of the modelled targets, computed once
CandidateTable == Candidates([base_url |-> BaseUrl])

\* if self.config.catalog_url: return self.config.catalog_url
DiscoverKnown ==
  /\ call_pc = "discover"
  /\ config.catalog_url # None
  /\ call_results' = <<config.catalog_url>>
  /\ call_pc' = "discovered"
  /\ UNCHANGED <<crawl_vars, product_vars, export_vars, scan_vars, call_arg>>

\* DiscoverCandidate without the test of product_urls: the first candidate whose
\* navigation succeeds is the catalog
DiscoverCandidateAnyPage ==
  /\ call_pc = "discover"
  /\ config.catalog_url = None
  /\ Len(opened) < Len(CATALOG_PATHS)
  /\ \E k \in {Len(opened) + 1} :
       /\ opened' = Append(opened, CandidateTable[k])
       /\ IF call_arg[k].goto # "ok"
          THEN UNCHANGED <<config, call_pc, call_results>>
          ELSE IF call_arg[k].locator = "raised"
          THEN /\ call_pc' = "raised"
               /\ UNCHANGED <<config, call_results>>
          ELSE /\ config' = [config EXCEPT !.catalog_url = CandidateTable[k]]
               /\ call_results' = <<CandidateTable[k]>>
               /\ call_pc' = "discovered"
  /\ UNCHANGED <<start_url, crawl_pc, collected, seen_products, visited_pages, current_url,
                 pending_fallback, page_index, first_offer, last_page, shopify_urls,
                 crawl_result, product_vars, export_vars, scan_vars, call_arg>>

\* one iteration of the loop over the candidates: the navigation, and after a
\* navigation that succeeded the product links of the page
DiscoverCandidate ==
  /\ call_pc = "discover"
  /\ config.catalog_url = None
  /\ Len(opened) < Len(CATALOG_PATHS)
  /\ \E k \in {Len(opened) + 1} :
       /\ opened' = Append(opened, CandidateTable[k])
       /\ IF call_arg[k].goto # "ok"
          THEN UNCHANGED <<config, call_pc, call_results>>
          ELSE IF call_arg[k].locator = "raised"
          THEN /\ call_pc' = "raised"
               /\ UNCHANGED <<config, call_results>>
          ELSE IF _collect_product_urls(config, call_arg[k].links) # <<>>
          THEN /\ config' = [config EXCEPT !.catalog_url = CandidateTable[k]]
               /\ call_results' = <<CandidateTable[k]>>
               /\ call_pc' = "discovered"
          ELSE UNCHANGED <<config, call_pc, call_results>>
  /\ UNCHANGED <<start_url, crawl_pc, collected, seen_products, visited_pages, current_url,
                 pending_fallback, page_index, first_offer, last_page, shopify_urls,
                 crawl_result, product_vars, export_vars, scan_vars, call_arg>>

\* the loop is over: return None
DiscoverExhausted ==
  /\ call_pc = "discover"
  /\ config.catalog_url = None
  /\ Len(opened) = Len(CATALOG_PATHS)
  /\ call_results' = <<None>>
  /\ call_pc' = "discovered"
  /\ UNCHANGED <<crawl_vars, product_vars, export_vars, scan_vars, call_arg>>

\* crawl_catalog: if not catalog_url: return []
CrawlCatalogSkips ==
  /\ call_pc = "discovered"
  /\ call_results[1] = None
  /\ call_pc' = "returned []"
  /\ UNCHANGED <<crawl_vars, product_vars, export_vars, scan_vars, call_arg, call_results>>

\* crawl_catalog: product_urls = await self._crawl_catalog_urls(catalog_url)
CrawlCatalogStarts ==
  /\ call_pc = "discovered"
  /\ call_results[1] # None
  /\ start_url' = call_results[1]
  /\ call_pc' = "crawling"
  /\ UNCHANGED <<config, crawl_pc, collected, seen_products, visited_pages, current_url,
                 pending_fallback, page_index, first_offer, opened, last_page, shopify_urls,
                 crawl_result, product_vars, export_vars, scan_vars, call_arg, call_results>>

\* crawl_catalog is called on a scraper whose catalog URL is configured or not
DiscoverInit ==
  /\ \E cfg \in ProductTargets :
       config \in {cfg, [cfg EXCEPT !.catalog_url = "https://s.io/shop?page=3"]}
  /\ CrawlIdle
  /\ ProductIdle
  /\ ExportIdle
  /\ ScanIdle
  /\ call_pc = "discover"
  /\ call_arg \in [DOMAIN CATALOG_PATHS -> CandidatePages]
  /\ call_results = <<>>

DiscoverNext ==
  \/ DiscoverKnown
  \/ DiscoverCandidate
  \/ DiscoverExhausted
  \/ CrawlCatalogSkips
  \/ CrawlCatalogStarts

SpecDiscover == DiscoverInit /\ [][DiscoverNext]_vars

(***************************************************************************)
(* Properties of the catalog crawl.                                        *)
(***************************************************************************)
Range(seq) == {seq[i] : i \in 1..Len(seq)}

NoDuplicates(seq) == \A i, j \in 1..Len(seq) : i # j => seq[i] # seq[j]

UniqueNormalized(urls) ==
  \A i, j \in 1..Len(urls) : i # j => Normalized(urls[i]) # Normalized(urls[j])

\* a catalog page has been opened and read to its end
LastPageRead == last_page.url # None

\* the last opened page gave no product link, or none that was new
LastPageBarren == last_page.product_urls = <<>> \/ last_page.new_count = 0

\* C1: budget invariant. In every state of the fast path and of the generic crawl
\* the collected list, and the list returned, hold at most max_products URLs.
BudgetInvariant ==
  /\ Len(collected) <= config.max_products
  /\ crawl_result # NoUrls => Len(crawl_result) <= config.max_products
  /\ shopify_urls # NoUrls => Len(shopify_urls) <= config.max_products

\* the generic crawl stopped at the budget on a page that held a further new link
BudgetCutsPage ==
  /\ crawl_pc = "returned" /\ LastPageRead
  /\ Len(crawl_result) = config.max_products
  /\ \E u \in Range(last_page.product_urls) : Normalized(u) \notin seen_products

\* C2: dedup invariant. The list either strategy returns holds no two entries with
\* the same normalized form, and neither does the collected list on the way.
DedupInvariant ==
  /\ UniqueNormalized(collected)
  /\ crawl_result # NoUrls => UniqueNormalized(crawl_result)

\* a later page linked an already collected product under another tracking query
SameProductOtherTracking ==
  /\ crawl_pc = "returned" /\ LastPageRead /\ Len(opened) >= 2
  /\ \E u \in Range(last_page.product_urls) :
       /\ u \notin Range(crawl_result)
       /\ \E r \in Range(crawl_result) : Normalized(r) = Normalized(u)

\* C3: no catalog page URL is navigated twice, and when the URL chosen as the next
\* page (the structural next URL after a page with new links, the pending fallback
\* after a barren page) is already visited, the crawl has stopped on the page that
\* chose it.
VisitedOnce ==
  /\ NoDuplicates(opened)
  /\ crawl_pc \in {"generic", "returned"} /\ LastPageRead
       => LET chosen == IF LastPageBarren THEN last_page.pending ELSE last_page.next_url
          IN chosen \in visited_pages
               => crawl_pc = "returned" /\ opened[Len(opened)] = last_page.url

\* a structural next link led back to a page opened earlier, and the crawl stopped
NextLinkBackToEarlierPage ==
  /\ crawl_pc = "returned" /\ LastPageRead /\ Len(opened) >= 2
  /\ ~LastPageBarren
  /\ Len(collected) < config.max_products
  /\ last_page.next_url = opened[1]

\* C4: cycle termination. Every generic crawl ends, by a return or by an exception,
\* whatever the links and next links of the pages.
CrawlTerminates == (crawl_pc = "generic") ~> (crawl_pc \in {"returned", "raised"})

\* the crawl ended on a second page whose next link led back to the first
TwoPageCycleCrawled ==
  /\ crawl_pc = "returned" /\ LastPageRead /\ Len(opened) = 2
  /\ last_page.new_count > 0
  /\ last_page.next_url = opened[1]

\* the products.json API gave three distinct products on page 1 and the fast path
\* took products from no other page
ScenarioA ==
  /\ crawl_pc = "returned"
  /\ shopify_urls # NoUrls /\ shopify_urls # <<>>
  /\ first_offer # NoUrls /\ Len(first_offer) = 3
  /\ page_index = 2

\* C5 as stated: a non-empty fast-path result is returned as it is and no catalog
\* page is opened, the generic crawl runs only after an empty fast-path result, and
\* three distinct products on page 1 of the API give exactly those three URLs.
StrategyExclusivityAsStated ==
  /\ shopify_urls # NoUrls /\ shopify_urls # <<>>
       => crawl_pc = "returned" /\ crawl_result = shopify_urls /\ opened = <<>>
  /\ opened # <<>> => shopify_urls = <<>>
  /\ ScenarioA => crawl_result = first_offer

\* C5, amended: as stated, but three distinct products on page 1 of the API give
\* the first max_products of those three URLs, all three when max_products >= 3.
StrategyExclusivity ==
  /\ shopify_urls # NoUrls /\ shopify_urls # <<>>
       => crawl_pc = "returned" /\ crawl_result = shopify_urls /\ opened = <<>>
  /\ opened # <<>> => shopify_urls = <<>>
  /\ ScenarioA =>
       crawl_result = SubSeq(first_offer, 1,
                             IF config.max_products < 3 THEN config.max_products ELSE 3)

\* the fast path returned the three URLs of page 1
ScenarioAThreeUrls ==
  ScenarioA /\ config.max_products >= 3 /\ Len(crawl_result) = 3

\* C6: when the start page gives new product links and its next link resolves to
\* the start page's own URL, the crawl has stopped with that one page opened and
\* returns what the page gave; the fallback URL of the page is never opened.
SelfLinkStops ==
  (/\ Len(opened) = 1 /\ LastPageRead
   /\ last_page.new_count > 0
   /\ last_page.next_url = start_url)
    => /\ crawl_pc = "returned"
       /\ crawl_result = collected
       /\ last_page.fallback_url \notin Range(opened)

\* the start page linked to itself while a distinct fallback URL was at hand and
\* budget was left
SelfLinkAtStart ==
  /\ crawl_pc = "returned" /\ Len(opened) = 1 /\ LastPageRead
  /\ last_page.new_count > 0
  /\ last_page.next_url = start_url
  /\ last_page.fallback_url # None /\ last_page.fallback_url # start_url
  /\ Len(collected) < config.max_products

(***************************************************************************)
(* Properties of the product page extractor and of the scans.              *)
(***************************************************************************)
\* the text of the first selector whose first element has non-empty text
FirstDomText(page, selectors) ==
  LET hits == {k \in 1..Len(selectors) :
                 /\ Elems(page, selectors[k]) # <<>>
                 /\ CleanText(Elems(page, selectors[k])[1]) # None}
      first == CHOOSE k \in hits : \A j \in hits : k <= j
  IN IF hits = {} THEN None ELSE CleanText(Elems(page, selectors[first])[1])

\* the record has a non-empty name
Named(record) == record.name # None /\ record.name # ""

\* every record a site's search or crawl holds, the scan holds, or a callback got
ScanRecords ==
  Range(results) \cup Range(session.results)
    \cup UNION {Range(site_local[s]) \cup Range(site_results[s]) : s \in Sites}
    \cup UNION {UNION {Range(calls[s][i].records) : i \in DOMAIN calls[s]} : s \in Sites}

\* the page of the last _scrape_product loaded and gave a name nowhere
LastPageNameless ==
  /\ last_scrape.page.goto = "ok"
  /\ FirstDomText(last_scrape.page, DEFAULT_NAME_SELECTORS) = None
  /\ ~ExtractJsonLd(last_scrape.page).raised
  /\ ExtractJsonLd(last_scrape.page).name \in {None, ""}

\* C7: every product record that a site's result list, the scan's results or an
\* on_site_done call holds has a non-empty name, and _scrape_product gives no record
\* for a page where neither the DOM name selectors nor the structured data give a name
RecordsAreNamed ==
  /\ \A record \in ScanRecords : Named(record)
  /\ last_scrape.result.outcome = "record" => Named(last_scrape.result.record)
  /\ last_scrape.result.outcome # "pending" /\ LastPageNameless
       => last_scrape.result.outcome = "none"

\* a site has handed a record to on_site_done and a later product page without a
\* name was skipped
NamelessPageSkipped ==
  /\ LastPageNameless
  /\ last_scrape.result.outcome = "none"
  /\ \E s \in Sites : calls[s] # <<>> /\ calls[s][1].records # <<>>
  /\ results # <<>>

\* the status the text of the DOM availability selectors normalizes to, None without
DomStatus ==
  LET text == FirstDomText(product_page, config.availability_selectors)
  IN IF text = None THEN None ELSE _normalize_availability(text)

\* the first add-to-cart button of the page is there and enabled
ButtonEnabled ==
  \E k \in DOMAIN ADD_TO_CART_SELECTORS :
    /\ ADD_TO_CART_SELECTORS[k] \in DOMAIN product_page.buttons
    /\ product_page.buttons[ADD_TO_CART_SELECTORS[k]] = "enabled"

ProductReturned == product_pc = "returned" /\ product_result.outcome = "record"

\* C8: when the text of the DOM availability selectors normalizes to a status, the
\* record's availability is that status, whatever the structured data and the
\* add-to-cart buttons say
AvailabilityDomFirst ==
  ProductReturned /\ DomStatus # None => product_result.record.availability = DomStatus

\* DOM "Sold Out", structured data InStock and an enabled button: out_of_stock
SoldOutBeatsInStock ==
  /\ ProductReturned
  /\ FirstDomText(product_page, config.availability_selectors) = "Sold Out"
  /\ ExtractJsonLd(product_page).availability = "in_stock"
  /\ ButtonEnabled
  /\ product_result.record.availability = "out_of_stock"

\* the value the fallback chain takes for a field: the first DOM text, the structured
\* data's value exactly when there is none
Chosen(selectors, field) ==
  LET text == FirstDomText(product_page, selectors)
  IN IF text # None THEN text ELSE ExtractJsonLd(product_page)[field]

\* no price selector matches an element of the page
NoPriceElement ==
  \A k \in DOMAIN config.price_selectors :
    Elems(product_page, config.price_selectors[k]) = <<>>

\* the statement of C9 taken literally: the description is the chosen value as it is
FieldFallbackAsStated ==
  ProductReturned =>
    /\ product_result.record.name = Chosen(config.name_selectors, "name")
    /\ product_result.record.price = Chosen(config.price_selectors, "price")
    /\ product_result.record.description =
         Chosen(config.description_selectors, "description")

\* C9: the record's name and price are the text of the first DOM selector that yields
\* text, the structured data's value exactly when none does; the description is the
\* value chosen this way after the sentence filter; no price element and structured
\* data offers.price "49.00" give the price "49.00"
FieldFallback ==
  ProductReturned =>
    /\ product_result.record.name = Chosen(config.name_selectors, "name")
    /\ product_result.record.price = Chosen(config.price_selectors, "price")
    /\ product_result.record.description =
         _clean_description(Chosen(config.description_selectors, "description"))
    /\ NoPriceElement /\ ExtractJsonLd(product_page).price = "49.00"
         => product_result.record.price = "49.00"

\* the DOM name beats the structured data's, the price comes from offers.price and a
\* sentence of the DOM description is filtered out
DomNameStructuredPrice ==
  /\ ProductReturned
  /\ product_result.record.name = "Linen Shirt"
  /\ ExtractJsonLd(product_page).name = "Tee"
  /\ NoPriceElement
  /\ product_result.record.price = "49.00"
  /\ FirstDomText(product_page, config.description_selectors) = "Soft cotton. Free shipping."
  /\ product_result.record.description = "Soft cotton."

\* C10: when the scan was given an on_site_done, every site's task calls it at most
\* once, has called it once when it is done, with the site's results and error, and
\* the scan returns only after every site's call, in search and in catalog mode
OnSiteDoneOnce ==
  HasCallback(endpoint) =>
    \A s \in Sites :
      /\ Len(calls[s]) <= 1
      /\ site_pc[s] = "done" <=> Len(calls[s]) = 1
      /\ Len(calls[s]) = 1 =>
           calls[s][1] = [records |-> site_results[s], error |-> site_error[s]]
      /\ scan_pc = "returned" => Len(calls[s]) = 1

\* a catalog scan has returned: one site raised, the other gave records
CatalogScanOneSiteRaised ==
  /\ CatalogMode(endpoint)
  /\ scan_pc = "returned"
  /\ \E s, t \in Sites :
       /\ calls[s] = <<[records |-> <<>>, error |-> "Exception"]>>
       /\ Len(calls[t]) = 1 /\ calls[t][1].error = None /\ calls[t][1].records # <<>>

(***************************************************************************)
(* Properties of the scans: concurrency and failures.                      *)
(***************************************************************************)
\* C11: at every moment of a scan at most MAX_CONCURRENCY (4) site scrapes are between
\* the start of their search or catalog crawl and the end of their on_site_done
\* call, also when more sites than that are configured
ConcurrencyBound ==
  Cardinality({s \in DOMAIN site_pc : site_pc[s] \in {"running", "scraping"}})
    <= MAX_CONCURRENCY

\* four site scrapes are in progress and a fifth task waits for the semaphore
FifthSiteWaits ==
  /\ Len(site_configs) > MAX_CONCURRENCY
  /\ Cardinality(Holders) = MAX_CONCURRENCY
  /\ \E s \in DOMAIN site_pc : site_pc[s] = "waiting"

\* the records of a site in a list of records
RecordsOf(records, s) ==
  SelectSeq(records, LAMBDA record : record.site = site_configs[s].name)

\* C12: an exception while a site is scraped, in any subset of the sites, never
\* leaves run_scan or run_scan_all: the scan is running, and then some task or the
\* return can take a step, or it has returned normally; it returns only when every
\* site's task has finished, a failed site adds nothing, and the returned list holds
\* every record of every site that did not fail
FailureIsolation ==
  /\ scan_pc \in {"gathering", "returned"}
  /\ scan_pc = "gathering" => ENABLED ScanNext
  /\ scan_pc = "returned" =>
       \A s \in DOMAIN site_pc :
         /\ site_pc[s] = "done"
         /\ RecordsOf(results, s) = site_results[s]
         /\ site_error[s] # None => site_results[s] = <<>>

\* a search scan has returned after one site raised; the other site's records are
\* in the returned list
SearchScanSurvivesFailure ==
  /\ ~CatalogMode(endpoint)
  /\ scan_pc = "returned"
  /\ \E s, t \in DOMAIN site_pc :
       /\ site_error[s] # None
       /\ site_error[t] = None /\ site_results[t] # <<>>
       /\ RecordsOf(results, t) = site_results[t]

(***************************************************************************)
(* Properties of the pure helpers.                                         *)
(***************************************************************************)
\* the names of the fields of the query string of a URL, read off its text
QueryFieldNames(url) ==
  LET query == Partition(Partition(url, "#")[1], "?")[2]
      fields == StrSplit(query, "&")
  IN {Partition(fields[i], "=")[1] : i \in 1..Len(fields)}

\* the URL has a query parameter of the tracking set
HasTracking(url) ==
  \E name \in QueryFieldNames(url) :
    name \in {"cid", "session", "gclid", "fbclid"} \/ StartsWith(name, "utm_")

\* C13: normalizing a normalized URL gives it back, and no normalized URL has a
\* query parameter of the tracking set (cid, session, gclid, fbclid, any utm_*)
NormalizeIdempotent ==
  /\ \A i \in DOMAIN call_results : ~HasTracking(call_results[i])
  /\ Len(call_results) >= 2 => call_results[2] = call_results[1]

\* a URL with a tracking parameter and another one was normalized twice: the first
\* call changed it, the second did not
TrackingStrippedOnce ==
  /\ Len(call_results) = 2
  /\ HasTracking(call_arg)
  /\ call_results[1] # call_arg
  /\ QueryFieldNames(call_results[1]) = {"color"}
  /\ call_results[2] = call_results[1]

\* ten times the number a text of digits with at most one decimal denotes
Tenths(number) ==
  LET dot == StrFind(number, ".")
  IN IF dot = 0 THEN 10 * StrToNat(number)
     ELSE 10 * StrToNat(SubSeq(number, 1, dot - 1))
          + StrToNat(SubSeq(number, dot + 1, Len(number)))

\* the numbers of a size text: what follows the region prefix, split at the dash
SizeEndpoints(text) ==
  LET first == CHOOSE i \in 1..Len(text) : /\ SubSeq(text, i, i) \in DigitChars
                                           /\ \A j \in 1..(i - 1) : SubSeq(text, j, j) \notin DigitChars
  IN StrSplit(SubSeq(text, first, Len(text)), "-")

\* C14: a numeric size token (optional UK/US/EU prefix, one or two digits, optional
\* decimal or range) is kept, upper-cased and without blank, exactly when the value of
\* each number in it is at most 30: 30 and "US 7.5" (as US7.5) and the range 6-8 are
\* kept, 31 and "EU 40" are rejected
SizeKeptByValue ==
  call_pc = "done" /\ call_arg \in SizeTexts =>
    call_results[1] =
      IF \A i \in DOMAIN SizeEndpoints(call_arg) : Tenths(SizeEndpoints(call_arg)[i]) <= 300
      THEN <<ReplaceChar(StrUpper(call_arg), " ", "")>>
      ELSE <<>>

\* the same for the texts of a single number, without range
SingleSizeKeptByValue ==
  call_pc = "done" /\ call_arg \in SizeTexts /\ Len(SizeEndpoints(call_arg)) = 1 =>
    call_results[1] =
      IF Tenths(SizeEndpoints(call_arg)[1]) <= 300
      THEN <<ReplaceChar(StrUpper(call_arg), " ", "")>>
      ELSE <<>>

(***************************************************************************)
(* Properties of the product page extractor: the availability chain.       *)
(***************************************************************************)
\* the status the DOM availability selectors give: the normalized text, in_stock
\* for an unmatched text with "low stock", None without
DomSignal ==
  LET text == FirstDomText(product_page, config.availability_selectors)
  IN IF text = None THEN None
     ELSE IF _normalize_availability(text) # None THEN _normalize_availability(text)
     ELSE IF StrIn("low stock", StrLower(text)) THEN "in_stock"
     ELSE None

\* the status the first add-to-cart button on the page gives, None without button
ButtonSignal ==
  LET hits == {k \in DOMAIN ADD_TO_CART_SELECTORS :
                 ADD_TO_CART_SELECTORS[k] \in DOMAIN product_page.buttons}
      first == CHOOSE k \in hits : \A j \in hits : k <= j
  IN IF hits = {} THEN None
     ELSE IF product_page.buttons[ADD_TO_CART_SELECTORS[first]] = "disabled"
     THEN "out_of_stock" ELSE "in_stock"

\* C15: when the DOM availability selectors give no status, the record's availability
\* is the normalized structured-data availability if there is one, and the
\* add-to-cart buttons decide only when both are absent: no DOM status, structured
\* data OutOfStock and an enabled button give out_of_stock
StructuredDataBeforeButtons ==
  ProductReturned /\ DomSignal = None =>
    product_result.record.availability =
      IF ExtractJsonLd(product_page).availability # None
      THEN ExtractJsonLd(product_page).availability
      ELSE ButtonSignal

\* what the code does instead: without DOM status a button on the page decides, and
\* the structured data only when there is no button
ButtonsBeforeStructuredData ==
  ProductReturned /\ DomSignal = None =>
    product_result.record.availability =
      IF ButtonSignal # None THEN ButtonSignal
      ELSE ExtractJsonLd(product_page).availability

(***************************************************************************)
(* Properties of the fast path.                                            *)
(***************************************************************************)
\* C16: for every sequence of API responses, an endpoint that returns the same
\* non-empty product list on every page and pages whose entries have no handle
\* included, the fast-path enumeration stops after finitely many requests
FastPathTerminates == (crawl_pc = "shopify") ~> (crawl_pc # "shopify")

(***************************************************************************)
(* Properties of the generic crawl: the choice of the next page.           *)
(***************************************************************************)
\* an iteration of the generic crawl that read its page to the end
PageRead == crawl_pc = "generic" /\ crawl_pc' \in {"generic", "returned"}

\* C17 as stated: after a page that yielded at least one new product link the crawl
\* advances to another page only when a next selector matched on that page with an
\* href (a structural next URL) that is not yet visited, and it stops when no
\* structural next URL was found on the page
StopRuleAsStated ==
  [][PageRead /\ last_page'.new_count > 0 =>
       /\ crawl_pc' = "generic" =>
            /\ last_page'.fallback_url # None
            /\ current_url' = last_page'.next_url
            /\ last_page'.next_url \notin visited_pages'
       /\ last_page'.fallback_url = None => crawl_pc' = "returned"]_vars

\* C17: after a page that yielded at least one new product link the crawl advances
\* to another page only when the page's next URL is not yet visited, and then to
\* that URL; the next URL is the structural one when a next selector matched with
\* an href, and otherwise the current URL with the pagination parameter set to the
\* next page index; the crawl stops when the next URL is already visited
StopRule ==
  [][PageRead /\ last_page'.new_count > 0 =>
       /\ last_page'.next_url # None
       /\ last_page'.fallback_url = None =>
            last_page'.next_url =
              WithPaginationParam(current_url, PaginationParam(config), page_index + 1)
       /\ crawl_pc' = "generic" =>
            /\ current_url' = last_page'.next_url
            /\ last_page'.next_url \notin visited_pages'
       /\ last_page'.next_url \in visited_pages' => crawl_pc' = "returned"]_vars

\* a page without a next link gave a new product link, and the crawl went on to the
\* parameter guess
AdvancedToParameterGuess ==
  /\ crawl_pc = "generic" /\ LastPageRead
  /\ last_page.new_count > 0
  /\ last_page.fallback_url = None
  /\ current_url = last_page.next_url
  /\ current_url # last_page.url

\* C18: after a page that yields no product link or no new link, the next page
\* visited is the pending fallback URL when one was set on the previous step (that
\* step's fallback URL, distinct from its structural next URL) and is not yet
\* visited, and the pending fallback is then cleared; without such a pending
\* fallback the crawl stops. Two consecutive pages without new links always stop
\* the crawl.
FallbackRetry ==
  [][PageRead /\ (last_page'.product_urls = <<>> \/ last_page'.new_count = 0) =>
       /\ IF pending_fallback # None /\ pending_fallback \notin visited_pages'
          THEN /\ crawl_pc' = "generic"
               /\ current_url' = pending_fallback
               /\ pending_fallback' = None
          ELSE crawl_pc' = "returned"
       /\ pending_fallback # None =>
            /\ LastPageRead /\ ~LastPageBarren
            /\ last_page.url = opened[Len(opened)]
            /\ pending_fallback = last_page.fallback_url
            /\ pending_fallback # last_page.next_url
       /\ LastPageRead /\ LastPageBarren => crawl_pc' = "returned"]_vars

\* a page without new links was answered by the pending fallback URL, which is the
\* page to open next
FallbackRetried ==
  /\ crawl_pc = "generic" /\ LastPageRead /\ LastPageBarren
  /\ last_page.pending # None
  /\ current_url = last_page.pending
  /\ pending_fallback = None

\* the retried fallback page gave no new link either, and the crawl stopped there
RetryBarrenToo ==
  /\ crawl_pc = "returned" /\ LastPageRead /\ LastPageBarren
  /\ Len(opened) >= 3
  /\ last_page.pending = None
  /\ last_page.url \in {WithPaginationParam(opened[1], PaginationParam(config), 2)}
  /\ opened[Len(opened)] = last_page.url

\* the page number a catalog URL carries in the pagination parameter, 1 without it
PageNumber(url, param) ==
  LET query == parse_qs(urlparse(url).query)
  IN IF param \notin DictKeys(query) THEN 1
     ELSE CHOOSE n \in 0..MaxPageNumber : StrOfInt(n) = query[DictIndex(query, param)][2][1]

\* C19: on every page of the generic crawl, a page reached through a fallback retry
\* and a start URL that already carries the pagination parameter included, the
\* fallback URL computed is the current URL with the pagination parameter (site
\* override, default page) set to one more than the current URL's page number, an
\* absent parameter counting as page 1
FallbackIsIncrement ==
  LastPageRead /\ last_page.fallback_url # None =>
    last_page.fallback_url =
      WithPaginationParam(last_page.url, PaginationParam(config),
                          PageNumber(last_page.url, PaginationParam(config)) + 1)

\* what the code computes: the parameter is set to one more than the number of
\* catalog pages opened so far, whatever page number the current URL carries
FallbackCountsPages ==
  LastPageRead /\ crawl_pc # "raised" /\ last_page.fallback_url # None =>
    last_page.fallback_url =
      WithPaginationParam(last_page.url, PaginationParam(config), Len(opened) + 1)

(***************************************************************************)
(* Properties of the fast path: failed requests.                           *)
(***************************************************************************)
\* C20: a transport error, an error status or a JSON-decode failure on any page
\* request, the first or a later one, makes the fast path return an empty list,
\* the URLs of earlier pages are discarded and the generic crawl runs from the
\* start URL; a page with an empty product list ends the enumeration without error
\* and what was collected is returned
FastPathFailurePolicy ==
  [][/\ ShopifyRequestFails =>
          /\ shopify_urls' = <<>>
          /\ crawl_pc' = "generic" /\ current_url' = start_url
          /\ collected' = <<>> /\ seen_products' = {} /\ opened' = <<>>
     /\ ShopifyRequestEmpty =>
          /\ shopify_urls' = collected
          /\ collected # <<>> => crawl_pc' = "returned" /\ crawl_result' = collected
          /\ collected = <<>> => crawl_pc' = "generic" /\ current_url' = start_url
     /\ first_offer' = Discarded => shopify_urls' = <<>> /\ crawl_pc' # "shopify"]_vars

\* a request after a page with products failed, and the generic crawl has opened
\* the start URL
FailedOnLaterPage ==
  /\ first_offer = Discarded
  /\ shopify_urls = <<>>
  /\ opened # <<>> /\ opened[1] = start_url

\* the fast path met a page without products below the budget and returned what the
\* pages before it gave
EmptyPageKeepsCollected ==
  /\ crawl_pc = "returned" /\ opened = <<>>
  /\ shopify_urls # NoUrls /\ shopify_urls # <<>>
  /\ Len(shopify_urls) < config.max_products
  /\ crawl_result = shopify_urls

(***************************************************************************)
(* Properties of the scans: what a failed site leaves.                     *)
(***************************************************************************)
\* C21: when an exception leaves a site's scrape after some of its products were
\* extracted, on_site_done for that site receives the records extracted before the
\* failure together with the error, and those records are part of the scan's
\* aggregate
PartialResultsKept ==
  HasCallback(endpoint) =>
    \A s \in DOMAIN site_pc :
      site_pc[s] = "done" /\ site_error[s] # None =>
        /\ calls[s] = <<[records |-> site_local[s], error |-> site_error[s]]>>
        /\ RecordsOf(results, s) = site_local[s]

\* what the code gives: a site that raised passes no record to on_site_done and adds
\* none to the aggregate, whatever it had extracted
FailedSiteGivesNothing ==
  \A s \in DOMAIN site_pc :
    site_pc[s] = "done" /\ site_error[s] # None =>
      /\ HasCallback(endpoint) => calls[s] = <<[records |-> <<>>, error |-> site_error[s]]>>
      /\ RecordsOf(results, s) = <<>>
      /\ RecordsOf(session.results, s) = <<>>

(***************************************************************************)
(* Properties of the records: the url field.                               *)
(***************************************************************************)
\* the records crawl_catalog builds from the product URLs its catalog crawl
\* returned: _scrape_product on each of the first max_products URLs, whatever
\* page the URL gives
RecordsFrom(urls) ==
  {result.record :
     result \in {r \in {_scrape_product(config, urls[i], page) :
                          i \in 1..Min({Len(urls), config.max_products}),
                          page \in ScanPages} : r.outcome = "record"}}

\* C22: the url of every emitted product record is in canonical form: it equals
\* its own normalization and has no tracking query parameter, whichever strategy
\* gave the URL
RecordUrlsCanonical ==
  crawl_pc = "returned" =>
    \A record \in RecordsFrom(crawl_result) :
      Normalized(record.url) = record.url /\ ~HasTracking(record.url)

\* what the code gives: the fast path returns normalized URLs, and every record
\* carries the URL its strategy returned, unchanged
FastPathUrlsCanonical ==
  /\ shopify_urls # NoUrls =>
       \A i \in 1..Len(shopify_urls) :
         Normalized(shopify_urls[i]) = shopify_urls[i] /\ ~HasTracking(shopify_urls[i])
  /\ crawl_pc = "returned" =>
       {record.url : record \in RecordsFrom(crawl_result)} \subseteq Range(crawl_result)

(***************************************************************************)
(* Properties of the link collection.                                      *)
(***************************************************************************)
\* the product links among the elements one selector matched, without repeats
LinksOfSelector(hrefs) == CollectHrefs(hrefs, 1, <<>>, config.base_url)

\* C23: the product links collected from a page are exactly the product links
\* matched by the first selector of the ordered product-link selector list that
\* has at least one match; links matched only by later selectors are not collected
FirstSelectorWins ==
  call_pc = "done" =>
    LET matching == {k \in 1..Len(call_arg) : call_arg[k] # <<>>}
    IN call_results[1] =
         IF matching = {} THEN <<>> ELSE LinksOfSelector(call_arg[Min(matching)])

\* what the code gives: the product links of every selector, in selector order,
\* each URL once
EverySelectorCollected ==
  call_pc = "done" =>
    /\ Range(call_results[1]) =
         UNION {Range(LinksOfSelector(call_arg[k])) : k \in 1..Len(call_arg)}
    /\ NoDuplicates(call_results[1])

(***************************************************************************)
(* Properties of the scans: a product that fails.                          *)
(***************************************************************************)
\* C24: a navigation failure or any exception while one product of a site is
\* scraped yields no record for that product only: the iteration leaves the site
\* without error and in its loop, the records so far are kept, the remaining
\* product URLs are scraped in order, and the site returns, without error, only
\* when every URL was scraped
ProductFailureIsolated ==
  [][\A s \in DOMAIN site_pc :
       /\ site_pc[s] = "scraping" /\ site_urls'[s] # site_urls[s] =>
            /\ site_urls'[s] = Tail(site_urls[s])
            /\ site_pc'[s] = "scraping" /\ site_error'[s] = None
            /\ scan_pc' = scan_pc /\ results' = results
            /\ site_local'[s] =
                 IF last_scrape'.result.outcome = "record"
                 THEN Append(site_local[s], last_scrape'.result.record)
                 ELSE site_local[s]
       /\ site_pc[s] = "scraping" /\ site_pc'[s] # "scraping" /\ site_error'[s] = None =>
            /\ site_urls[s] = <<>>
            /\ site_results'[s] = site_local[s]]_vars

\* a site returned without error with the record of its second product only: the
\* first product failed and the second was still scraped
SecondProductAfterFailure ==
  \E s \in DOMAIN site_pc :
    /\ site_pc[s] = "done" /\ site_error[s] = None
    /\ Len(site_results[s]) = 1
    /\ site_results[s][1].url = SiteUrls(site_configs[s], 2)[2]
    /\ last_scrape.result.outcome = "raised"

(***************************************************************************)
(* Properties of catalog discovery.                                        *)
(***************************************************************************)
\* the page has an element, under some product-link selector, whose href joined to
\* the base URL is a product URL
HasProductLink(cfg, page) ==
  \E i \in DOMAIN page.links : \E j \in DOMAIN page.links[i] :
    /\ page.links[i][j] # ""
    /\ IsProductUrl(Joined(cfg.base_url, page.links[i][j]))

\* the candidates of the site whose navigation succeeds and whose page has a
\* product link
Qualifying ==
  {k \in DOMAIN CATALOG_PATHS :
     call_arg[k].goto = "ok" /\ HasProductLink(config, call_arg[k])}

\* C25: a known catalog URL is returned without any navigation; otherwise the
\* discovery navigates to the candidates in the order of CATALOG_PATHS, skips those
\* whose navigation fails, and returns the first whose page has a product link, None
\* exactly when there is none; after None crawl_catalog returns the empty list, and
\* it raises only when a locator of a page raised
DiscoveryResult ==
  [][/\ call_pc = "discover" /\ config.catalog_url # None =>
          /\ call_pc' = "discovered" /\ call_results' = <<config.catalog_url>>
          /\ opened' = <<>> /\ config' = config
     /\ call_pc = "discover" /\ config.catalog_url = None /\ call_pc' = "discovered" =>
          /\ \A k \in 1..Len(opened') : opened'[k] = "https://s.io" \o CATALOG_PATHS[k]
          /\ IF Qualifying = {}
             THEN call_results' = <<None>> /\ Len(opened') = Len(CATALOG_PATHS)
             ELSE /\ call_results' = <<"https://s.io" \o CATALOG_PATHS[Min(Qualifying)]>>
                  /\ Len(opened') = Min(Qualifying)
     /\ call_pc' = "raised" =>
          call_arg[Len(opened')].goto = "ok" /\ call_arg[Len(opened')].locator = "raised"
     /\ call_pc = "discovered" =>
          IF call_results[1] = None THEN call_pc' = "returned []"
          ELSE call_pc' = "crawling" /\ start_url' = call_results[1]]_vars

\* the first two candidates fail to load or have no product link, the third is the
\* catalog and the crawl starts on it
ThirdCandidateDiscovered ==
  /\ call_pc = "crawling"
  /\ call_arg[1].goto = "fail"
  /\ call_arg[2].goto = "ok" /\ ~HasProductLink(config, call_arg[2])
  /\ call_arg[2].links # <<<<>>, <<>>>>
  /\ opened = <<"https://s.io/collections/all", "https://s.io/collections", "https://s.io/shop">>
  /\ start_url = "https://s.io/shop"

\* no candidate qualifies and crawl_catalog has returned the empty list
NoCatalogFound ==
  /\ call_pc = "returned []"
  /\ Len(opened) = Len(CATALOG_PATHS)
  /\ \E k \in DOMAIN call_arg : call_arg[k].goto = "fail"
  /\ \E k \in DOMAIN call_arg : call_arg[k].goto = "ok"

(***************************************************************************)
(* Properties of the configurations across scans.                          *)
(***************************************************************************)
\* every scrape_site task of the scan is still to start
ScanAtStart == scan_pc = "gathering" /\ \A s \in DOMAIN site_pc : site_pc[s] = "waiting"

\* C26: at the start of every scan, after any number of earlier scans, every field
\* of every configuration has its static value: the caching of a discovered catalog
\* URL does not outlive the scan that discovered it
ConfigScopeOneScan == ScanAtStart => site_configs = SITE_CONFIGS

\* every field but catalog_url keeps its static value in every state, and a cached
\* catalog URL stays for the rest of the process
OnlyCatalogUrlCached ==
  [][\A s \in DOMAIN site_configs :
       /\ [site_configs'[s] EXCEPT !.catalog_url = None] = SITE_CONFIGS[s]
       /\ site_configs[s].catalog_url # None => site_configs'[s] = site_configs[s]]_vars

\* a scan starts with the catalog URL an earlier scan cached
ScanStartsWithCachedUrl ==
  /\ ScanAtStart
  /\ \E s \in DOMAIN site_configs : site_configs[s].catalog_url # None

(***************************************************************************)
(* Properties of the aggregate.                                            *)
(***************************************************************************)
\* C27: whatever the interleaving of the site tasks, the list of the scan is at
\* every moment the concatenation of the record lists passed to on_site_done so far,
\* in the order of the calls, which is what the callback of app/main.py keeps in
\* the session; in the list the scan returns, the records of each site are the list
\* passed for it, once and in one block
AggregateIsConcatenation ==
  HasCallback(endpoint) =>
    /\ results = session.results
    /\ scan_pc = "returned" =>
         \A s \in DOMAIN site_configs :
           /\ Len(calls[s]) = 1
           /\ RecordsOf(results, s) = calls[s][1].records
           /\ \E p \in 0..Len(results) :
                SubSeq(results, p + 1, p + Len(calls[s][1].records)) = calls[s][1].records

\* the second site completed before the first and both passed two records
SecondSiteCompletedFirst ==
  /\ HasCallback(endpoint)
  /\ scan_pc = "returned"
  /\ Len(results) = 4
  /\ results[1].site = "site2" /\ results[2].site = "site2"
  /\ results[3].site = "site1" /\ results[4].site = "site1"
  /\ Len(calls[1][1].records) = 2

(***************************************************************************)
(* Properties of the number of catalog pages.                              *)
(***************************************************************************)
\* C28: the generic crawl navigates to at most 2 * max_products catalog pages,
\* whatever next links and fallback pages the site offers
PageVisitBound == Len(opened) <= 2 * config.max_products

\* a crawl with a budget of two that opened three pages: a page with a new link, a
\* next page without one, and the fallback page
ThreePagesForTwoProducts ==
  /\ config.max_products = 2
  /\ Len(opened) = 3
  /\ crawl_pc = "returned"
  /\ Len(crawl_result) = 2

\* a crawl with the largest budget that opened one page less than twice the budget
LongestCrawl ==
  /\ config.max_products = MaxBudget
  /\ Len(opened) = 2 * MaxBudget - 1

(***************************************************************************)
(* Properties of the pages of a scan.                                      *)
(***************************************************************************)
RECURSIVE OpenPages(_)
\* the pages the first n site tasks have open
OpenPages(n) == IF n = 0 THEN 0 ELSE OpenPages(n - 1) + site_pages[n]

\* C29: a site task never has more than one page open, it has none when it opens
\* one and none when it has finished, also after an exception; and the scan never
\* has more than MAX_CONCURRENCY pages open
TabLifecycle ==
  /\ \A s \in DOMAIN site_pages :
       /\ site_pages[s] <= 1
       /\ site_pc[s] \in {"waiting", "running", "scraping", "done"} => site_pages[s] = 0
  /\ OpenPages(Len(site_configs)) <= MAX_CONCURRENCY

\* four tasks have a page open, the fifth waits, and the scan goes on
FourPagesOpen ==
  /\ OpenPages(Len(site_configs)) = MAX_CONCURRENCY
  /\ \E s \in DOMAIN site_pc : site_pc[s] = "waiting"

\* a task has finished with an exception while the others are at work
RaisedWithPageClosed ==
  /\ \E s \in DOMAIN site_pc :
       site_pc[s] = "done" /\ site_error[s] # None /\ site_pages[s] = 0
  /\ OpenPages(Len(site_configs)) = MAX_CONCURRENCY - 1

(***************************************************************************)
(* Properties of the session of a scan.                                    *)
(***************************************************************************)
\* C30: in every state of a scan the session counts at most sites_total sites done,
\* and a session whose status is complete counts exactly sites_total
SessionProgress ==
  /\ session.sites_done <= session.sites_total
  /\ session.status = "complete" => session.sites_done = session.sites_total

\* a background scan is complete after one of its sites raised
CompleteAfterFailure ==
  /\ HasCallback(endpoint)
  /\ session.status = "complete"
  /\ session.sites_total = NumSites
  /\ \E s \in DOMAIN site_error : site_error[s] # None

\* a background scan is under way with one site done and one at work
OneSiteDone ==
  /\ session.status = "running"
  /\ session.sites_done = 1
  /\ \E s \in DOMAIN site_pc : site_pc[s] = "scraping"

(***************************************************************************)
(* Properties of the export file.                                          *)
(***************************************************************************)
\* the i-th row of the export file is the row of the result
RowOf(row, result) ==
  /\ Len(row) = Len(HeaderRow)
  /\ row[1] = result.site /\ row[2] = result.name /\ row[4] = result.url
  /\ row[3] = (IF result.price = None THEN "" ELSE result.price)
  /\ row[5] = StrJoin(result.sizes, ", ")
  /\ row[6] = (IF result.availability = None THEN "" ELSE result.availability)
  /\ row[7] = (IF result.description = None THEN "" ELSE result.description)

ExportBehind ==
  /\ export_file.exists
  /\ 0 < exported_count /\ exported_count < Len(session.results)

\* the first export came before any result: the file is the header row
HeaderOnly ==
  /\ export_file.exists
  /\ export_file.rows = <<HeaderRow>>
  /\ exported_count = 0 /\ session.results = <<>>

====
